---- MODULE Spec2Model ----
(***************************************************************************)
(* A model of the Sintra anomaly detection engine,                         *)
(* src/event_manager/eventmanager.py (class SintraEventManager) with its   *)
(* helpers of src/event_manager/anomaly_utils.py.                          *)
(*                                                                         *)
(* Python values are modelled as follows.                                  *)
(*   - An optional value (None or a value) is a sequence of length 0 or 1: *)
(*     None is <<>>, the value v is <<v>>.  This keeps None, 0 and the     *)
(*     empty list apart, which Python's truth tests do not always do.      *)
(*   - A float is an integer; the model's values are integral and the      *)
(*     code only adds, multiplies and compares them.                       *)
(*   - A dict is a sequence of [k, v] entries in insertion order, as a     *)
(*     Python dict iterates.                                               *)
(*   - A baseline file is absent, unparseable, or holds the one value of   *)
(*     its JSON object.                                                    *)
(*   - The timestamp of an event is left out: it is the wall clock.        *)
(***************************************************************************)
EXTENDS Integers, Sequences, FiniteSets, TLC

VARIABLES
    baseline_rtt_files,   \* baseline_dir/ping_<probe>_<target>.json, per key
    baseline_hops_files,  \* baseline_dir/traceroute_<probe>_<target>.json, per key
    route_history,        \* self.route_history, per key
    config,               \* self.config["detection"]
    data,                 \* the measurement analyzed last
    io_faults,            \* the I/O fault met by each record of that analysis
    probe_data,           \* the probe_data collected by that analysis
    events,               \* the events that analysis returned
    raised,               \* the exception that analysis propagated, "" if none
    last_rtt,             \* history: per key, the last non-null latency passed to the store
    last_hops,            \* history: per key, the last hop list passed to the store
    observed,             \* history: per key, every non-empty hop list the routing detector saw
    repeated,             \* history: the last analysis was of the measurement analyzed before it
    result_files,         \* analyze_all: the files its glob found, in the order of the loop
    file_index,           \* analyze_all: the position of the loop in result_files
    processed_count,      \* analyze_all: processed_count
    error_count,          \* analyze_all: error_count
    batch_raised,         \* the exception analyze_all propagated, "" if none
    reports,              \* event_results_dir/<measurement_id>.json, per measurement id
    invocations           \* concurrent calls of _get_and_update_baseline_rtt, per process

vars == <<baseline_rtt_files, baseline_hops_files, route_history, config, data,
          io_faults, probe_data, events, raised, last_rtt, last_hops, observed,
          repeated, result_files, file_index, processed_count, error_count,
          batch_raised, reports, invocations>>

----------------------------------------------------------------------------
(* Python values *)

None == <<>>
Some(v) == <<v>>
Val(o) == o[1]

\* Python's truth test of an optional number: None and 0 are false.
TruthyNum(o) == o # None /\ Val(o) # 0
\* Python's truth test of an optional list: None and the empty list are false.
TruthySeq(o) == o # None /\ Val(o) # <<>>
\* Python's truth test of an optional string: None and the empty string are false.
TruthyStr(o) == o # None /\ Val(o) # ""

\* a or b, of optional strings
PyOr(a, b) == IF TruthyStr(a) THEN a ELSE b

RECURSIVE DictHas(_, _)
DictHas(d, k) ==
    IF d = <<>> THEN FALSE
    ELSE IF Head(d).k = k THEN TRUE ELSE DictHas(Tail(d), k)

\* d.get(k): the value as an optional, None when the key is missing.  The values the
\* engine stores are optionals themselves, so a stored None and a missing key read alike.
RECURSIVE DictGet(_, _)
DictGet(d, k) ==
    IF d = <<>> THEN None
    ELSE IF Head(d).k = k THEN Head(d).v ELSE DictGet(Tail(d), k)

\* d[k] = v: an existing key keeps its place, a new key goes last.
DictSet(d, k, v) ==
    IF DictHas(d, k)
    THEN [i \in 1..Len(d) |-> IF d[i].k = k THEN [k |-> k, v |-> v] ELSE d[i]]
    ELSE Append(d, [k |-> k, v |-> v])

DictKeys(d) == [i \in 1..Len(d) |-> d[i].k]

RECURSIVE SeqSum(_)
SeqSum(s) == IF s = <<>> THEN 0 ELSE Head(s) + SeqSum(Tail(s))

Range(s) == {s[i] : i \in 1..Len(s)}

----------------------------------------------------------------------------
(* Configuration: the defaults of _load_config *)

latency_spike_ms == 250
latency_spike_multiplier == 2
packet_loss_percentage == 10
jitter_spike_ms == 15
outlier_factor == 2
geo_anomaly_margin_ms == 50
path_flapping_window == 3

----------------------------------------------------------------------------
(* The baseline store *)

Absent == [tag |-> "absent", val |-> None]
\* A file json.load cannot decode, such as one a failed write left truncated.
Corrupt == [tag |-> "corrupt", val |-> None]
\* json.dump({"avg_rtt": v}) or json.dump({"hop_ips": v}); json.load gives v back.
JsonFile(v) == [tag |-> "json", val |-> Some(v)]

\* What can go wrong with the files of one get-and-update call:
\*   read_error       open or read of the existing file fails (IOError)
\*   write_open_error open(file, "w") fails (IOError), the file is untouched
\*   write_dump_error open(file, "w") truncated the file, then the write fails (IOError)
Faults == {"none", "read_error", "write_open_error", "write_dump_error"}

\* A variant whose except clause names the decode error only.
CaughtDecodeErrorOnly == {"JSONDecodeError"}

\* except (json.JSONDecodeError, IOError)
CaughtExceptions == {"JSONDecodeError", "IOError"}

\* if baseline_file.exists(): json.load(...).get(field)
ReadBaseline(file, fault) ==
    IF file.tag = "absent" THEN [exc |-> "", val |-> None]
    ELSE IF fault = "read_error" THEN [exc |-> "IOError", val |-> None]
    ELSE IF file.tag = "corrupt" THEN [exc |-> "JSONDecodeError", val |-> None]
    ELSE [exc |-> "", val |-> file.val]

\* A variant that leaves an existing baseline as it is.
WriteBaselineOnce(file, current, fault) ==
    IF fault = "write_open_error" THEN [exc |-> "IOError", file |-> file]
    ELSE IF fault = "write_dump_error" THEN [exc |-> "IOError", file |-> Corrupt]
    ELSE [exc |-> "", file |-> IF file.tag = "json" THEN file ELSE JsonFile(current)]

\* with open(baseline_file, "w") as bf: json.dump({field: current}, bf)
WriteBaseline(file, current, fault) ==
    IF fault = "write_open_error" THEN [exc |-> "IOError", file |-> file]
    ELSE IF fault = "write_dump_error" THEN [exc |-> "IOError", file |-> Corrupt]
    ELSE [exc |-> "", file |-> JsonFile(current)]

\* The try block of both get-and-update methods: read, then write when do_write; an
\* exception of the read leaves the block before the write.
GetAndUpdate(files, k, current, do_write, fault) ==
    LET rd == ReadBaseline(files[k], fault)
        wr == IF rd.exc = "" /\ do_write
              THEN WriteBaseline(files[k], current, fault)
              ELSE [exc |-> "", file |-> files[k]]
        exc == IF rd.exc # "" THEN rd.exc ELSE wr.exc
    IN [ret |-> rd.val,
        files |-> [files EXCEPT ![k] = wr.file],
        raised |-> IF exc \in CaughtExceptions THEN "" ELSE exc]

\* A variant that tests the current latency for truth where the code tests it for None.
GetAndUpdateRttIfTruthy(files, probe_id, target_addr, current_rtt, fault) ==
    GetAndUpdate(files, <<probe_id, target_addr>>,
                 IF current_rtt = None THEN 0 ELSE Val(current_rtt),
                 TruthyNum(current_rtt), fault)

\* A variant that writes the current latency without testing it.
GetAndUpdateRttAlways(files, probe_id, target_addr, current_rtt, fault) ==
    GetAndUpdate(files, <<probe_id, target_addr>>,
                 IF current_rtt = None THEN 0 ELSE Val(current_rtt),
                 TRUE, fault)

_get_and_update_baseline_rtt(files, probe_id, target_addr, current_rtt, fault) ==
    GetAndUpdate(files, <<probe_id, target_addr>>,
                 IF current_rtt = None THEN 0 ELSE Val(current_rtt),
                 current_rtt # None, fault)

\* A variant that skips the write of an empty hop list.
GetAndUpdateHopsIfAny(files, probe_id, target_addr, current_hops, fault) ==
    GetAndUpdate(files, <<probe_id, target_addr>>, current_hops,
                 current_hops # <<>>, fault)

_get_and_update_baseline_hops(files, probe_id, target_addr, current_hops, fault) ==
    GetAndUpdate(files, <<probe_id, target_addr>>, current_hops, TRUE, fault)

----------------------------------------------------------------------------
(* anomaly_utils.py *)

\* statistics.stdev(rtts) is the square root of num / den with
\*   num = n * sum(x^2) - sum(x)^2  and  den = n * (n - 1);
\* the model keeps the pair, which decides every comparison the engine makes exactly.
calculate_jitter(rtts) ==
    IF Len(rtts) > 1
    THEN [num |-> Len(rtts) * SeqSum([i \in 1..Len(rtts) |-> rtts[i] * rtts[i]])
                  - SeqSum(rtts) * SeqSum(rtts),
          den |-> Len(rtts) * (Len(rtts) - 1)]
    ELSE [num |-> 0, den |-> 1]

\* jitter > limit, for limit >= 0
JitterExceeds(jitter, limit) == jitter.num > limit * limit * jitter.den

\* A variant that counts a None among the values as a 0 of the mean.
IsOutlierNoneAsZero(value, values, factor) ==
    LET valid == [i \in 1..Len(values) |-> IF values[i] = None THEN Some(0) ELSE values[i]]
        total == SeqSum([i \in 1..Len(valid) |-> Val(valid[i])])
    IN IF valid = <<>> THEN FALSE
       ELSE value # None /\ Val(value) * Len(valid) > total * factor

\* A variant that applies the factor to the value, not to the mean.
IsOutlierFactorOnValue(value, values, factor) ==
    LET valid == SelectSeq(values, LAMBDA v : v # None)
        total == SeqSum([i \in 1..Len(valid) |-> Val(valid[i])])
    IN IF valid = <<>> THEN FALSE
       ELSE value # None /\ Val(value) * factor * Len(valid) > total

\* if dist1 > dist2 and lat1 < lat2 - margin, False when any of the four is None
geo_anomaly_check(dist1, lat1, dist2, lat2, margin) ==
    IF dist1 = None \/ lat1 = None \/ dist2 = None \/ lat2 = None THEN FALSE
    ELSE Val(dist1) > Val(dist2) /\ Val(lat1) < Val(lat2) - margin

\* value > avg * factor with avg = sum(valid) / len(valid), multiplied out by len(valid)
is_outlier(value, values, factor) ==
    LET valid == SelectSeq(values, LAMBDA v : v # None)
        total == SeqSum([i \in 1..Len(valid) |-> Val(valid[i])])
    IN IF valid = <<>> THEN FALSE
       ELSE value # None /\ Val(value) * Len(valid) > total * factor

----------------------------------------------------------------------------
(* _collect_probe_data *)

EmptyProbeData ==
    [latencies |-> <<>>, distances |-> <<>>, losses |-> <<>>, jitters |-> <<>>,
     targets |-> <<>>, traceroute_hops |-> <<>>, baseline_rtts |-> <<>>,
     baseline_hops |-> <<>>]

\* A variant of _process_ping_data that calls the store whatever the configuration says.
ProcessPingDataAlways(st, result, probe_id, target_addr, fault, detection) ==
    LET latency == result.avg
        pd1 == [st.pd EXCEPT
                  !.latencies = DictSet(@, probe_id, latency),
                  !.losses = DictSet(@, probe_id, result.packet_loss_percentage),
                  !.jitters = DictSet(@, probe_id, Some(calculate_jitter(result.rtts))),
                  !.distances = DictSet(@, probe_id, result.distance_km)]
        call == _get_and_update_baseline_rtt(st.rtt_files, probe_id, target_addr,
                                             latency, fault)
    IN IF call.raised # ""
       THEN [st EXCEPT !.pd = pd1, !.rtt_files = call.files, !.raised = call.raised]
       ELSE [st EXCEPT !.pd = [pd1 EXCEPT !.baseline_rtts = DictSet(@, probe_id, call.ret)],
                       !.rtt_files = call.files]

\* st is the collector's state while it walks the records: the probe_data so far (pd),
\* the two kinds of baseline files, and the exception that ended the walk ("" if none).
_process_ping_data(st, result, probe_id, target_addr, fault, detection) ==
    LET latency == result.avg
        pd1 == [st.pd EXCEPT
                  !.latencies = DictSet(@, probe_id, latency),
                  !.losses = DictSet(@, probe_id, result.packet_loss_percentage),
                  !.jitters = DictSet(@, probe_id, Some(calculate_jitter(result.rtts))),
                  !.distances = DictSet(@, probe_id, result.distance_km)]
        call == _get_and_update_baseline_rtt(st.rtt_files, probe_id, target_addr,
                                             latency, fault)
    IN IF ~detection.enable_adaptive_baseline THEN [st EXCEPT !.pd = pd1]
       ELSE IF call.raised # ""
       THEN [st EXCEPT !.pd = pd1, !.rtt_files = call.files, !.raised = call.raised]
       ELSE [st EXCEPT !.pd = [pd1 EXCEPT !.baseline_rtts = DictSet(@, probe_id, call.ret)],
                       !.rtt_files = call.files]

\* [h.get("ip") for h in hops if h.get("ip")]
HopIps(hops) ==
    LET kept == SelectSeq(hops, LAMBDA ip : TruthyStr(ip))
    IN [i \in 1..Len(kept) |-> Val(kept[i])]

\* A variant that keeps, for a probe with several traceroute records, the baseline its
\* first record read.
ProcessTracerouteDataFirstBaseline(st, result, probe_id, target_addr, fault) ==
    LET hop_ips == HopIps(result.hops)
        pd1 == [st.pd EXCEPT !.traceroute_hops = DictSet(@, probe_id, Some(hop_ips))]
        call == _get_and_update_baseline_hops(st.hops_files, probe_id, target_addr,
                                              hop_ips, fault)
    IN IF call.raised # ""
       THEN [st EXCEPT !.pd = pd1, !.hops_files = call.files, !.raised = call.raised]
       ELSE [st EXCEPT !.pd = IF DictHas(pd1.baseline_hops, probe_id) THEN pd1
                               ELSE [pd1 EXCEPT !.baseline_hops =
                                                    DictSet(@, probe_id, call.ret)],
                       !.hops_files = call.files]

_process_traceroute_data(st, result, probe_id, target_addr, fault) ==
    LET hop_ips == HopIps(result.hops)
        pd1 == [st.pd EXCEPT !.traceroute_hops = DictSet(@, probe_id, Some(hop_ips))]
        call == _get_and_update_baseline_hops(st.hops_files, probe_id, target_addr,
                                              hop_ips, fault)
    IN IF call.raised # ""
       THEN [st EXCEPT !.pd = pd1, !.hops_files = call.files, !.raised = call.raised]
       ELSE [st EXCEPT !.pd = [pd1 EXCEPT !.baseline_hops = DictSet(@, probe_id, call.ret)],
                       !.hops_files = call.files]

\* A variant that reads result["probe_id"] and fails on a record without.
CollectRecordRequiresProbe(st, result, fault, detection) ==
    IF result.probe_id = None THEN [st EXCEPT !.raised = "KeyError"]
    ELSE LET probe_id == Val(result.probe_id)
             target_addr == PyOr(result.target_address, result.target)
             st1 == [st EXCEPT !.pd.targets = DictSet(@, probe_id, target_addr)]
         IN IF result.measurement_type = "ping"
            THEN _process_ping_data(st1, result, probe_id, target_addr, fault, detection)
            ELSE IF result.measurement_type = "traceroute"
            THEN _process_traceroute_data(st1, result, probe_id, target_addr, fault)
            ELSE st1

\* One pass of the loop over data["results"].
CollectRecord(st, result, fault, detection) ==
    IF result.probe_id = None THEN st
    ELSE LET probe_id == Val(result.probe_id)
             target_addr == PyOr(result.target_address, result.target)
             st1 == [st EXCEPT !.pd.targets = DictSet(@, probe_id, target_addr)]
         IN IF result.measurement_type = "ping"
            THEN _process_ping_data(st1, result, probe_id, target_addr, fault, detection)
            ELSE IF result.measurement_type = "traceroute"
            THEN _process_traceroute_data(st1, result, probe_id, target_addr, fault)
            ELSE st1

RECURSIVE CollectFrom(_, _, _, _, _)
CollectFrom(st, results, faults, i, detection) ==
    IF i > Len(results) \/ st.raised # "" THEN st
    ELSE CollectFrom(CollectRecord(st, results[i], faults[i], detection),
                     results, faults, i + 1, detection)

_collect_probe_data(rtt_files, hops_files, results, faults, detection) ==
    CollectFrom([pd |-> EmptyProbeData, rtt_files |-> rtt_files,
                 hops_files |-> hops_files, raised |-> ""],
                results, faults, 1, detection)

----------------------------------------------------------------------------
(* The detectors *)

\* A variant that gives every event the severity warning.
CreateEventWarning(anomaly, probe_id, target, metric, value, threshold, units, severity) ==
    [anomaly |-> anomaly, probe_id |-> probe_id, target |-> target, metric |-> metric,
     value |-> value, threshold |-> threshold, units |-> units, severity |-> "warning",
     previous_hops |-> None, current_hops |-> None, routes |-> None]

_create_event(anomaly, probe_id, target, metric, value, threshold, units, severity) ==
    [anomaly |-> anomaly, probe_id |-> probe_id, target |-> target, metric |-> metric,
     value |-> value, threshold |-> threshold, units |-> units, severity |-> severity,
     previous_hops |-> None, current_hops |-> None, routes |-> None]

\* The concatenation of ss[1], ..., ss[n]: what a loop appends, pass after pass.
RECURSIVE Concat(_)
Concat(ss) == IF ss = <<>> THEN <<>> ELSE Head(ss) \o Concat(Tail(ss))

DictValues(d) == [i \in 1..Len(d) |-> d[i].v]

\* if latency and is_outlier(latency, latencies.values(), outlier_factor), for the
\* entry e of the latencies
OutlierLatencyEvents(pd, e) ==
    IF TruthyNum(e.v) /\ is_outlier(e.v, DictValues(pd.latencies), outlier_factor)
    THEN <<_create_event("outlier_probe_latency", e.k, DictGet(pd.targets, e.k),
                         "ping_rtt_ms", e.v, None, "ms", "warning")>>
    ELSE <<>>

\* A variant without the floor of 5.0.
OutlierLossEventsNoFloor(pd, e) ==
    IF /\ TruthyNum(e.v)
       /\ is_outlier(e.v, DictValues(pd.losses), outlier_factor)
    THEN <<_create_event("outlier_probe_loss", e.k, DictGet(pd.targets, e.k),
                         "ping_loss_pct", e.v, None, "%", "warning")>>
    ELSE <<>>

\* if loss and loss > 5.0 and is_outlier(loss, losses.values(), outlier_factor), for the
\* entry e of the losses
OutlierLossEvents(pd, e) ==
    IF /\ TruthyNum(e.v)
       /\ Val(e.v) > 5
       /\ is_outlier(e.v, DictValues(pd.losses), outlier_factor)
    THEN <<_create_event("outlier_probe_loss", e.k, DictGet(pd.targets, e.k),
                         "ping_loss_pct", e.v, None, "%", "warning")>>
    ELSE <<>>

_detect_outlier_anomalies(pd, detection) ==
    IF ~detection.enable_outlier_detection THEN <<>>
    ELSE Concat([i \in 1..Len(pd.latencies) |-> OutlierLatencyEvents(pd, pd.latencies[i])])
         \o Concat([i \in 1..Len(pd.losses) |-> OutlierLossEvents(pd, pd.losses[i])])

\* The checks of the loop of _detect_threshold_anomalies, for one probe of the targets.

\* if latency: if latency > thresholds["latency_spike_ms"]
StaticSpikeEvents(pd, probe_id) ==
    LET latency == DictGet(pd.latencies, probe_id)
    IN IF TruthyNum(latency) /\ Val(latency) > latency_spike_ms
       THEN <<_create_event("latency_spike", probe_id, DictGet(pd.targets, probe_id),
                            "ping_rtt_ms", latency, Some(latency_spike_ms),
                            "ms", "warning")>>
       ELSE <<>>

\* if latency: if baseline_rtt and latency > baseline_rtt * multiplier
AdaptiveSpikeEvents(pd, probe_id) ==
    LET latency == DictGet(pd.latencies, probe_id)
        baseline_rtt == DictGet(pd.baseline_rtts, probe_id)
    IN IF /\ TruthyNum(latency)
          /\ TruthyNum(baseline_rtt)
          /\ Val(latency) > Val(baseline_rtt) * latency_spike_multiplier
       THEN <<_create_event("latency_spike", probe_id, DictGet(pd.targets, probe_id),
                            "ping_rtt_ms", latency,
                            Some(Val(baseline_rtt) * latency_spike_multiplier),
                            "ms", "warning")>>
       ELSE <<>>

\* if loss and loss > thresholds["packet_loss_percentage"]
PacketLossEvents(pd, probe_id) ==
    LET loss == DictGet(pd.losses, probe_id)
    IN IF TruthyNum(loss) /\ Val(loss) > packet_loss_percentage
       THEN <<_create_event("packet_loss", probe_id, DictGet(pd.targets, probe_id),
                            "ping_loss_pct", loss, Some(packet_loss_percentage),
                            "%", "warning")>>
       ELSE <<>>

\* A variant that runs the check inside the "if latency:" block.
UnreachableEventsUnderLatency(pd, probe_id) ==
    LET loss == DictGet(pd.losses, probe_id)
    IN IF /\ TruthyNum(DictGet(pd.latencies, probe_id))
          /\ TruthyNum(loss) /\ Val(loss) = 100
       THEN <<_create_event("unreachable_host", probe_id, DictGet(pd.targets, probe_id),
                            "reachability", Some(0), Some(1), "reachable_flag",
                            "critical")>>
       ELSE <<>>

\* if loss and loss == 100.0
UnreachableEvents(pd, probe_id) ==
    LET loss == DictGet(pd.losses, probe_id)
    IN IF TruthyNum(loss) /\ Val(loss) = 100
       THEN <<_create_event("unreachable_host", probe_id, DictGet(pd.targets, probe_id),
                            "reachability", Some(0), Some(1), "reachable_flag",
                            "critical")>>
       ELSE <<>>

\* if jitter and jitter > thresholds["jitter_spike_ms"]
JitterSpikeEvents(pd, probe_id) ==
    LET jitter == DictGet(pd.jitters, probe_id)
    IN IF /\ jitter # None
          /\ Val(jitter).num # 0
          /\ JitterExceeds(Val(jitter), jitter_spike_ms)
       THEN <<_create_event("jitter_spike", probe_id, DictGet(pd.targets, probe_id),
                            "ping_jitter_ms", jitter, Some(jitter_spike_ms),
                            "ms", "warning")>>
       ELSE <<>>

\* One pass of the loop: the events of one probe, in the order the code appends them.
ThresholdEvents(pd, probe_id) ==
    StaticSpikeEvents(pd, probe_id) \o AdaptiveSpikeEvents(pd, probe_id)
    \o PacketLossEvents(pd, probe_id) \o UnreachableEvents(pd, probe_id)
    \o JitterSpikeEvents(pd, probe_id)

_detect_threshold_anomalies(pd) ==
    Concat([i \in 1..Len(pd.targets) |-> ThresholdEvents(pd, pd.targets[i].k)])

\* s[-n:]
LastN(s, n) == IF Len(s) <= n THEN s ELSE SubSeq(s, Len(s) - n + 1, Len(s))

\* A variant that compares the two routes as sets of hops.
RouteChangedUnordered(previous_hops, current_hops) ==
    /\ TruthySeq(previous_hops)
    /\ TruthySeq(current_hops)
    /\ Range(Val(previous_hops)) # Range(Val(current_hops))

\* if previous_hops and current_hops and previous_hops != current_hops
RouteChanged(previous_hops, current_hops) ==
    /\ TruthySeq(previous_hops)
    /\ TruthySeq(current_hops)
    /\ previous_hops # current_hops

\* A variant that evaluates the window as soon as the history fills it.
WindowExceededFrom(history_of_key) == Len(history_of_key) >= path_flapping_window

\* if len(self.route_history[route_key]) > flapping_window
WindowExceeded(history_of_key) == Len(history_of_key) > path_flapping_window

\* The body of the loop of _detect_routing_anomalies, for one probe of the targets:
\* its events and the route history it leaves.
RoutingStep(pd, history, probe_id) ==
    LET target_addr == DictGet(pd.targets, probe_id)
        current_hops == DictGet(pd.traceroute_hops, probe_id)
        previous_hops == DictGet(pd.baseline_hops, probe_id)
        route_change ==
            IF RouteChanged(previous_hops, current_hops)
            THEN <<[_create_event("route_change", probe_id, target_addr,
                                  "traceroute_hops", None, None, "", "warning")
                    EXCEPT !.previous_hops = previous_hops,
                           !.current_hops = current_hops]>>
            ELSE <<>>
        route_key == <<probe_id, target_addr>>
        history1 == IF TruthySeq(current_hops)
                    THEN [history EXCEPT ![route_key] = Append(@, Val(current_hops))]
                    ELSE history
        recent_routes == LastN(history1[route_key], path_flapping_window)
        path_flapping ==
            IF /\ TruthySeq(current_hops)
               /\ WindowExceeded(history1[route_key])
               /\ Cardinality(Range(recent_routes)) > 1
            THEN <<[_create_event("path_flapping", probe_id, target_addr,
                                  "traceroute_hops", None, None, "", "warning")
                    EXCEPT !.routes = Some(recent_routes)]>>
            ELSE <<>>
    IN [events |-> route_change \o path_flapping, history |-> history1]

RECURSIVE RoutingFrom(_, _, _, _)
RoutingFrom(pd, acc, probes, i) ==
    IF i > Len(probes) THEN acc
    ELSE LET step == RoutingStep(pd, acc.history, probes[i])
         IN RoutingFrom(pd, [events |-> acc.events \o step.events,
                             history |-> step.history], probes, i + 1)

_detect_routing_anomalies(pd, history) ==
    RoutingFrom(pd, [events |-> <<>>, history |-> history], DictKeys(pd.targets), 1)

----------------------------------------------------------------------------
(* The engine's state and analyze_measurement *)

Probes == {"p1", "p2"}
\* The probes of the measurements of the outlier detector, which needs three to flag one.
OutlierProbes == Probes \cup {"p3"}
Targets == {"t1"}
\* A key of the baseline files and of the route history: the probe and the resolved
\* target, which is None when a record names none.
Keys == OutlierProbes \X ({None} \cup {Some(t) : t \in Targets})

\* The number of routes the model lets the route history hold, all keys together.
MaxHistory == 4

DefaultDetection ==
    [enable_outlier_detection |-> TRUE, enable_geo_anomaly_detection |-> TRUE,
     enable_adaptive_baseline |-> TRUE]

MeasurementIds == {"m1", "m2"}

\* The report file of a measurement id: absent, cut short by a failed write, or the
\* JSON object save_events dumped (its timestamp left out).
NoReport == [tag |-> "absent", events |-> <<>>, analysis |-> None]
TruncatedReport == [tag |-> "truncated", events |-> <<>>, analysis |-> None]
Report(evs, analysis) == [tag |-> "json", events |-> evs, analysis |-> Some(analysis)]

\* No batch run was started, the results directory is empty, and no call of the store
\* is in progress.
NoBatch ==
    /\ result_files = <<>>
    /\ file_index = 1
    /\ processed_count = 0
    /\ error_count = 0
    /\ batch_raised = ""
    /\ reports = [id \in MeasurementIds |-> NoReport]
    /\ invocations = <<>>

\* The state after __init__, with an empty baseline directory.
InitWith(detection) ==
    /\ baseline_rtt_files = [k \in Keys |-> Absent]
    /\ baseline_hops_files = [k \in Keys |-> Absent]
    /\ route_history = [k \in Keys |-> <<>>]
    /\ config = detection
    /\ data = <<>>
    /\ io_faults = <<>>
    /\ probe_data = EmptyProbeData
    /\ events = <<>>
    /\ raised = ""
    /\ last_rtt = [k \in Keys |-> None]
    /\ last_hops = [k \in Keys |-> None]
    /\ observed = [k \in Keys |-> <<>>]
    /\ repeated = FALSE
    /\ NoBatch

Init == InitWith(DefaultDetection)

\* The key a record addresses.
KeyOf(result) == <<Val(result.probe_id), PyOr(result.target_address, result.target)>>

\* History: the last non-null latency handed to the store, per key.
RECURSIVE NoteRtt(_, _, _)
NoteRtt(last, results, detection) ==
    IF results = <<>> THEN last
    ELSE LET r == Head(results)
             handed == /\ r.probe_id # None
                       /\ r.measurement_type = "ping"
                       /\ detection.enable_adaptive_baseline
                       /\ r.avg # None
         IN NoteRtt(IF handed THEN [last EXCEPT ![KeyOf(r)] = r.avg] ELSE last,
                    Tail(results), detection)

\* History: the last hop list handed to the store, per key.
RECURSIVE NoteHops(_, _)
NoteHops(last, results) ==
    IF results = <<>> THEN last
    ELSE LET r == Head(results)
             handed == r.probe_id # None /\ r.measurement_type = "traceroute"
         IN NoteHops(IF handed THEN [last EXCEPT ![KeyOf(r)] = Some(HopIps(r.hops))]
                     ELSE last,
                     Tail(results))

\* The records of a probe, in order.
RecordsOf(results, p) == SelectSeq(results, LAMBDA r : r.probe_id = Some(p))
TraceroutesOf(results, p) ==
    SelectSeq(RecordsOf(results, p), LAMBDA r : r.measurement_type = "traceroute")
PingsOf(results, p) ==
    SelectSeq(RecordsOf(results, p), LAMBDA r : r.measurement_type = "ping")
Last(s) == s[Len(s)]

\* History: the routes one analysis observes.  A probe shows the routing detector the
\* hop list of its last traceroute record, under the target of its last record.
NoteObserved(obs, results) ==
    [k \in Keys |->
        LET mine == RecordsOf(results, k[1])
            traces == TraceroutesOf(results, k[1])
        IN IF /\ traces # <<>>
              /\ k = KeyOf(Last(mine))
              /\ HopIps(Last(traces).hops) # <<>>
           THEN Append(obs[k], HopIps(Last(traces).hops))
           ELSE obs[k]]

HasTraceroute(results) ==
    \E i \in 1..Len(results) :
        results[i].probe_id # None /\ results[i].measurement_type = "traceroute"

RECURSIVE SumOver(_, _)
SumOver(S, f) == IF S = {} THEN 0
                 ELSE LET k == CHOOSE x \in S : TRUE
                      IN Len(f[k]) + SumOver(S \ {k}, f)
HistorySize(history) == SumOver(Keys, history)

\* The body of analyze_measurement(data), each record meeting the I/O fault faults[i].
AnalysisBody(d, faults) ==
    /\ \E col \in {_collect_probe_data(baseline_rtt_files, baseline_hops_files, d,
                                      faults, config)} :
       \E routing \in {_detect_routing_anomalies(col.pd, route_history)} :
          /\ baseline_rtt_files' = col.rtt_files
          /\ baseline_hops_files' = col.hops_files
          /\ probe_data' = col.pd
          /\ raised' = col.raised
          /\ IF col.raised # ""
             THEN events' = <<>> /\ route_history' = route_history
             ELSE /\ events' = _detect_outlier_anomalies(col.pd, config)
                               \o _detect_threshold_anomalies(col.pd)
                               \o routing.events
                  /\ route_history' = routing.history
    /\ data' = d
    /\ io_faults' = faults
    /\ last_rtt' = NoteRtt(last_rtt, d, config)
    /\ last_hops' = NoteHops(last_hops, d)
    /\ observed' = NoteObserved(observed, d)
    /\ repeated' = (d = data)
    /\ UNCHANGED config

\* The same, while the route history has room for the routes of d.
Analysis(d, faults) ==
    /\ HasTraceroute(d) => HistorySize(route_history) + Len(d) <= MaxHistory
    /\ AnalysisBody(d, faults)

\* analyze_measurement(data), called on the engine directly.
analyze_measurement(d, faults) ==
    /\ Analysis(d, faults)
    /\ UNCHANGED <<result_files, file_index, processed_count, error_count, batch_raised,
                   reports, invocations>>

----------------------------------------------------------------------------
(* Measurements *)

\* A ping ResultRecord of the fetched measurement file.
Ping(probe_id, avg, loss, rtts) ==
    [probe_id |-> probe_id, target_address |-> Some("t1"), target |-> None,
     measurement_type |-> "ping", avg |-> avg, rtts |-> rtts,
     packet_loss_percentage |-> loss, distance_km |-> None, hops |-> <<>>]

\* A traceroute ResultRecord; hops holds the "ip" of each hop, None for a hop without.
Traceroute(probe_id, hops) ==
    [probe_id |-> probe_id, target_address |-> Some("t1"), target |-> None,
     measurement_type |-> "traceroute", avg |-> None, rtts |-> <<>>,
     packet_loss_percentage |-> None, distance_km |-> None, hops |-> hops]

NoFaults(d) == [i \in 1..Len(d) |-> "none"]

----------------------------------------------------------------------------
(* The baseline store under healthy I/O: measurements of one record, so that one   *)
(* analysis is one get-and-update call.                                            *)

StoreLatencies == {None, Some(0), Some(100)}
StoreHops == {<<>>, <<Some("A")>>, <<None, Some("B")>>}

StorePings == {<<Ping(Some(p), avg, None, <<>>)>> : p \in Probes, avg \in StoreLatencies}
StoreTraceroutes == {<<Traceroute(Some(p), hops)>> : p \in Probes, hops \in StoreHops}

AnalyzePing == \E d \in StorePings : analyze_measurement(d, NoFaults(d))

AnalyzeTraceroute == \E d \in StoreTraceroutes : analyze_measurement(d, NoFaults(d))

NextStore == AnalyzePing \/ AnalyzeTraceroute

InitStore ==
    \E adaptive \in BOOLEAN :
        InitWith([DefaultDetection EXCEPT !.enable_adaptive_baseline = adaptive])

SpecStore == InitStore /\ [][NextStore]_vars

\* The analysis of d was one call of the store: d is one record of the kind, with a probe.
IsOneCall(d, kind) ==
    Len(d) = 1 /\ d[1].probe_id # None /\ d[1].measurement_type = kind

\* What that call returned: the previous baseline the collector kept for the probe.
ReturnedRtt(d, pd) == DictGet(pd.baseline_rtts, Val(d[1].probe_id))
ReturnedHops(d, pd) == DictGet(pd.baseline_hops, Val(d[1].probe_id))

\* C1: with the adaptive baseline enabled, a latency get-and-update call with a non-null
\* current latency returns the latency handed over by the most recent earlier call on
\* the key that had a non-null one (None if there was none), and leaves the store
\* holding its own current latency.
C1_LatencyCallReturnsLastAndStoresCurrent ==
    [][(/\ IsOneCall(data', "ping")
        /\ config.enable_adaptive_baseline
        /\ data'[1].avg # None)
       => /\ ReturnedRtt(data', probe_data') = last_rtt[KeyOf(data'[1])]
          /\ baseline_rtt_files'[KeyOf(data'[1])] = JsonFile(Val(data'[1].avg))]_vars

\* C1's case: a call with a non-null latency, here 0, that returned an earlier one.
C1_Witness ==
    /\ IsOneCall(data, "ping")
    /\ config.enable_adaptive_baseline
    /\ data[1].avg = Some(0)
    /\ ReturnedRtt(data, probe_data) = Some(100)
    /\ baseline_rtt_files[KeyOf(data[1])] = JsonFile(0)

\* C2: a hop get-and-update call returns the hop list handed over by the call before it
\* on the key (None on the first call) and leaves the store holding its own current hop
\* list, the empty list included.
C2_HopsCallReturnsPreviousAndStoresCurrent ==
    [][IsOneCall(data', "traceroute")
       => /\ ReturnedHops(data', probe_data') = last_hops[KeyOf(data'[1])]
          /\ baseline_hops_files'[KeyOf(data'[1])] = JsonFile(HopIps(data'[1].hops))]_vars

\* C2's case: a call that returned a non-empty list and stored the empty one.
C2_Witness ==
    /\ IsOneCall(data, "traceroute")
    /\ ReturnedHops(data, probe_data) = Some(<<"B">>)
    /\ baseline_hops_files[KeyOf(data[1])] = JsonFile(<<>>)

\* C3: a latency get-and-update call with a null current latency leaves every stored
\* latency baseline as it was, and returns the value stored for its key.
C3_NullLatencyLeavesBaseline ==
    [][(/\ IsOneCall(data', "ping")
        /\ config.enable_adaptive_baseline
        /\ data'[1].avg = None)
       => /\ baseline_rtt_files' = baseline_rtt_files
          /\ ReturnedRtt(data', probe_data') = baseline_rtt_files[KeyOf(data'[1])].val]_vars

\* C3's case: a call with a null latency on a key that holds a baseline.
C3_Witness ==
    /\ IsOneCall(data, "ping")
    /\ config.enable_adaptive_baseline
    /\ data[1].avg = None
    /\ ReturnedRtt(data, probe_data) = Some(100)
    /\ baseline_rtt_files[KeyOf(data[1])] = JsonFile(100)
    /\ \E k \in Keys : k # KeyOf(data[1]) /\ baseline_rtt_files[k] = JsonFile(0)

----------------------------------------------------------------------------
(* The baseline store under failing I/O, again one call per analysis. *)

FaultyLatencies == {None, Some(100), Some(300)}
FaultyHops == {<<>>, <<Some("A")>>}

FaultyPings == {<<Ping(Some("p1"), avg, None, <<>>)>> : avg \in FaultyLatencies}
FaultyTraceroutes == {<<Traceroute(Some("p1"), hops)>> : hops \in FaultyHops}

AnalyzePingFaulty ==
    \E d \in FaultyPings, fault \in Faults : analyze_measurement(d, <<fault>>)

AnalyzeTracerouteFaulty ==
    \E d \in FaultyTraceroutes, fault \in Faults : analyze_measurement(d, <<fault>>)

NextFaults == AnalyzePingFaulty \/ AnalyzeTracerouteFaulty

SpecFaults == Init /\ [][NextFaults]_vars

\* The read of the file meets an I/O error or a JSON decode error.
ReadFails(file, fault) ==
    file.tag # "absent" /\ (fault = "read_error" \/ file.tag = "corrupt")
\* The read goes through and the write, which the call attempts, meets an I/O error.
WriteFails(file, fault, writes) ==
    ~ReadFails(file, fault) /\ writes /\ fault \in {"write_open_error", "write_dump_error"}

\* The file of the call, the fault it meets and whether it has something to write.
CallFile(d, rtt_files, hops_files) ==
    IF d[1].measurement_type = "ping" THEN rtt_files[KeyOf(d[1])]
    ELSE hops_files[KeyOf(d[1])]
CallWrites(d) == d[1].measurement_type = "traceroute" \/ d[1].avg # None
CallReturned(d, pd) ==
    IF d[1].measurement_type = "ping" THEN ReturnedRtt(d, pd) ELSE ReturnedHops(d, pd)
IsCall(d) == IsOneCall(d, "ping") \/ IsOneCall(d, "traceroute")

\* C4 as claimed: a get-and-update call whose read or whose write fails returns None,
\* and the analysis raises nothing.
C4_Original ==
    [][(/\ IsCall(data')
        /\ \/ ReadFails(CallFile(data', baseline_rtt_files, baseline_hops_files),
                        io_faults'[1])
           \/ WriteFails(CallFile(data', baseline_rtt_files, baseline_hops_files),
                         io_faults'[1], CallWrites(data')))
       => CallReturned(data', probe_data') = None /\ raised' = ""]_vars

\* C4 as amended: a call whose read fails returns None; a call whose read goes through
\* and whose write fails returns the value it read; either way the analysis raises
\* nothing and keeps what the call returned as the probe's previous baseline.
C4_FailedCallIsNotFatal ==
    [][IsCall(data')
       => LET file == CallFile(data', baseline_rtt_files, baseline_hops_files)
              fault == io_faults'[1]
          IN /\ ReadFails(file, fault)
                => CallReturned(data', probe_data') = None /\ raised' = ""
             /\ WriteFails(file, fault, CallWrites(data'))
                => CallReturned(data', probe_data') = file.val /\ raised' = ""
             /\ (ReadFails(file, fault) \/ WriteFails(file, fault, CallWrites(data')))
                => IF data'[1].measurement_type = "ping"
                   THEN DictHas(probe_data'.baseline_rtts, "p1")
                   ELSE DictHas(probe_data'.baseline_hops, "p1")]_vars

\* C4's case: a call whose write failed on a key that held a baseline, which the call
\* returned.
C4_Witness ==
    /\ IsOneCall(data, "ping")
    /\ io_faults = <<"write_dump_error">>
    /\ data[1].avg = Some(300)
    /\ ReturnedRtt(data, probe_data) = Some(100)
    /\ baseline_rtt_files[KeyOf(data[1])] = Corrupt
    /\ raised = ""

\* C5 as claimed: a call with a current value and healthy I/O on a key whose record is
\* unparseable leaves the store holding the current value.
C5_Original ==
    [][(/\ IsCall(data')
        /\ CallFile(data', baseline_rtt_files, baseline_hops_files) = Corrupt
        /\ io_faults'[1] = "none"
        /\ CallWrites(data'))
       => CallFile(data', baseline_rtt_files', baseline_hops_files')
          = JsonFile(IF data'[1].measurement_type = "ping" THEN Val(data'[1].avg)
                     ELSE HopIps(data'[1].hops))]_vars

----------------------------------------------------------------------------
(* The threshold detector: ping measurements of one probe or of two. *)

ThresholdLatencies == {None, Some(0), Some(100), Some(250), Some(300)}
ThresholdLosses == {None, Some(20), Some(100)}
P1Pings == {Ping(Some("p1"), avg, loss, <<>>) :
                avg \in ThresholdLatencies, loss \in ThresholdLosses}
P2Pings == {Ping(Some("p2"), Some(300), Some(100), <<>>),
            Ping(Some("p2"), Some(30), None, <<10, 50>>)}
\* The records of p1 in the measurements of two records.
PairPings == {Ping(Some("p1"), avg, loss, <<>>) :
                  avg \in {None, Some(0), Some(100), Some(300)},
                  loss \in {None, Some(100)}}
ThresholdData ==
    {<<a>> : a \in P1Pings \cup P2Pings} \cup {<<a, b>> : a \in PairPings, b \in P2Pings}

AnalyzePings == \E d \in ThresholdData : analyze_measurement(d, NoFaults(d))

NextThreshold == AnalyzePings

SpecThreshold == Init /\ [][NextThreshold]_vars

\* The same, and measurements that hold two ping records of one probe.
RepeatedPingData == ThresholdData \cup {<<a, b>> : a \in PairPings, b \in PairPings}

AnalyzeRepeatedPings == \E d \in RepeatedPingData : analyze_measurement(d, NoFaults(d))

NextRepeatedPings == AnalyzeRepeatedPings

SpecRepeatedPings == Init /\ [][NextRepeatedPings]_vars

\* The events of a kind that the last analysis emitted for a probe, in order.
EventsOf(anomaly, p) ==
    SelectSeq(events, LAMBDA e : e.anomaly = anomaly /\ e.probe_id = p)

\* The last analysis emitted a latency_spike event for p with this threshold.
HasSpike(p, threshold) ==
    \E i \in 1..Len(events) :
        /\ events[i].anomaly = "latency_spike"
        /\ events[i].probe_id = p
        /\ events[i].threshold = Some(threshold)
        /\ events[i].value = DictGet(probe_data.latencies, p)

\* C6 as claimed: for a ping probe with current latency L and a previous latency
\* baseline B, 0 included, an adaptive latency_spike event (threshold B * multiplier) is
\* emitted if and only if L > B * multiplier.
C6_Original ==
    \A p \in Probes :
        LET L == DictGet(probe_data.latencies, p)
            B == DictGet(probe_data.baseline_rtts, p)
        IN (L # None /\ B # None)
           => (HasSpike(p, Val(B) * latency_spike_multiplier)
               <=> Val(L) > Val(B) * latency_spike_multiplier)

\* C7 as claimed: a probe whose latency exceeds both latency_spike_ms and
\* baseline * multiplier gets exactly two latency_spike events, the static one and the
\* adaptive one.
C7_Original ==
    \A p \in Probes :
        LET L == DictGet(probe_data.latencies, p)
            B == DictGet(probe_data.baseline_rtts, p)
            spikes == EventsOf("latency_spike", p)
        IN (/\ L # None /\ B # None
            /\ Val(L) > latency_spike_ms
            /\ Val(L) > Val(B) * latency_spike_multiplier)
           => /\ Len(spikes) = 2
              /\ spikes[1].threshold = Some(latency_spike_ms)
              /\ spikes[2].threshold = Some(Val(B) * latency_spike_multiplier)

\* C8 as claimed: every ping record with a loss of 100 gets its probe exactly one
\* unreachable_host event, of severity critical.
C8_Original ==
    \A i \in 1..Len(data) :
        (/\ data[i].probe_id # None
         /\ data[i].measurement_type = "ping"
         /\ data[i].packet_loss_percentage = Some(100))
        => LET unreachable == EventsOf("unreachable_host", Val(data[i].probe_id))
           IN Len(unreachable) = 1 /\ unreachable[1].severity = "critical"

\* C8 as amended: a probe whose last ping record of the measurement has a loss of 100
\* gets exactly one unreachable_host event, of severity critical, whatever the latency
\* of that record.
C8_UnreachableOncePerProbe ==
    \A p \in Probes :
        (/\ PingsOf(data, p) # <<>>
         /\ Last(PingsOf(data, p)).packet_loss_percentage = Some(100))
        => LET unreachable == EventsOf("unreachable_host", p)
           IN Len(unreachable) = 1 /\ unreachable[1].severity = "critical"

\* C8's case: two ping records of a probe that both lost everything, the last one
\* without a latency, and the one event they get.
C8_Witness ==
    /\ Len(data) = 2
    /\ \A i \in 1..2 : /\ data[i].probe_id = Some("p1")
                       /\ data[i].packet_loss_percentage = Some(100)
    /\ data[2].avg = None
    /\ Len(EventsOf("unreachable_host", "p1")) = 1

----------------------------------------------------------------------------
(* The routing detector: traceroute measurements. *)

RouteABC == <<Some("A"), Some("B"), Some("C")>>
RouteABD == <<Some("A"), Some("B"), Some("D")>>
RouteACB == <<Some("A"), Some("C"), Some("B")>>
\* A route with a hop that did not answer: its hop_ips are A, B.
RouteAB == <<Some("A"), None, Some("B")>>

P1Traceroutes == {Traceroute(Some("p1"), hops) :
                      hops \in {<<>>, RouteABC, RouteABD, RouteACB, RouteAB}}
P2Traceroutes == {Traceroute(Some("p2"), RouteABC)}
RoutingData ==
    {<<a>> : a \in P1Traceroutes \cup P2Traceroutes}
    \cup {<<a, b>> : a \in {Traceroute(Some("p1"), RouteABD)}, b \in P2Traceroutes}

AnalyzeTraceroutes == \E d \in RoutingData : analyze_measurement(d, NoFaults(d))

NextRouting == AnalyzeTraceroutes

SpecRouting == Init /\ [][NextRouting]_vars

\* The events of a kind among evs for a probe, in order.
EventsIn(evs, anomaly, p) ==
    SelectSeq(evs, LAMBDA e : e.anomaly = anomaly /\ e.probe_id = p)

\* C9: a traceroute record gets its probe a route_change event if and only if the hop
\* baseline stored before the analysis exists and is non-empty, the current hop list is
\* non-empty, and the two lists differ; the event carries both lists and is a warning.
C9_RouteChangeIffBaselineDiffers ==
    [][\A i \in 1..Len(data') :
         LET r == data'[i]
             previous == baseline_hops_files[KeyOf(r)].val
             current == HopIps(r.hops)
             changes == EventsIn(events', "route_change", Val(r.probe_id))
         IN IF /\ previous # None
               /\ Val(previous) # <<>>
               /\ current # <<>>
               /\ Val(previous) # current
            THEN /\ Len(changes) = 1
                 /\ changes[1].previous_hops = previous
                 /\ changes[1].current_hops = Some(current)
                 /\ changes[1].severity = "warning"
            ELSE changes = <<>>]_vars

\* C9's case: a route_change event between two routes of the same hops in another order.
C9_Witness ==
    \E i \in 1..Len(events) :
        /\ events[i].anomaly = "route_change"
        /\ events[i].probe_id = "p1"
        /\ events[i].previous_hops = Some(<<"A", "C", "B">>)
        /\ events[i].current_hops = Some(<<"A", "B", "C">>)
        /\ data = <<Traceroute(Some("p1"), RouteABC)>>

\* The probe showed the routing detector a route in the last analysis.
ObservedNow(p) ==
    /\ TraceroutesOf(data, p) # <<>>
    /\ HopIps(Last(TraceroutesOf(data, p)).hops) # <<>>

\* C10 as claimed: at an observation of a key, a path_flapping event is emitted if and
\* only if the key has at least flapping_window observations and the last
\* flapping_window of them hold at least two distinct routes; so with window 3 and the
\* routes ABC, ABD, ABC it is emitted at the third.
C10_Original ==
    \A p \in Probes :
        ObservedNow(p)
        => LET obs == observed[KeyOf(Last(RecordsOf(data, p)))]
           IN EventsOf("path_flapping", p) # <<>>
              <=> /\ Len(obs) >= path_flapping_window
                  /\ Cardinality(Range(LastN(obs, path_flapping_window))) >= 2

\* C11: a path_flapping event is emitted only when the route history of its key holds
\* more than path_flapping_window entries, and its routes are the last
\* path_flapping_window entries of that history, which are the last observations of the
\* key in their order.
C11_FlappingOnlyPastWindow ==
    \A i \in 1..Len(events) :
        events[i].anomaly = "path_flapping"
        => LET k == <<events[i].probe_id, events[i].target>>
           IN /\ Len(route_history[k]) > path_flapping_window
              /\ events[i].routes = Some(LastN(route_history[k], path_flapping_window))
              /\ events[i].routes = Some(LastN(observed[k], path_flapping_window))
              /\ Len(Val(events[i].routes)) = path_flapping_window

\* C11's case: the fourth route of a key, and the event with the last three in order.
C11_Witness ==
    /\ Len(route_history[<<"p1", Some("t1")>>]) = path_flapping_window + 1
    /\ \E i \in 1..Len(events) :
          /\ events[i].anomaly = "path_flapping"
          /\ events[i].probe_id = "p1"
          /\ events[i].routes = Some(<<<<"A", "B", "D">>, <<"A", "B", "D">>,
                                       <<"A", "B", "C">>>>)

\* C12 as claimed: every traceroute record of an analysis, one with an empty hop list
\* included, appends its hop list to the route history of its key, so that n
\* observations of a key leave n entries.
C12_Original ==
    [][\A i \in 1..Len(data') :
         (data'[i].probe_id # None /\ data'[i].measurement_type = "traceroute")
         => route_history'[KeyOf(data'[i])]
            = Append(route_history[KeyOf(data'[i])], HopIps(data'[i].hops))]_vars

\* C13 as claimed: a traceroute record whose hop list is non-empty and does not end at
\* the resolved target address gets its probe an unreachable_host event of severity
\* critical.
C13_Original ==
    \A i \in 1..Len(data) :
        (/\ data[i].probe_id # None
         /\ data[i].measurement_type = "traceroute"
         /\ HopIps(data[i].hops) # <<>>
         /\ Some(Last(HopIps(data[i].hops)))
            # PyOr(data[i].target_address, data[i].target))
        => \E j \in 1..Len(events) :
              /\ events[j].anomaly = "unreachable_host"
              /\ events[j].probe_id = Val(data[i].probe_id)
              /\ events[j].severity = "critical"

----------------------------------------------------------------------------
(* The outlier detector: ping measurements of up to three probes.  The adaptive    *)
(* baseline is switched off, so that an analysis depends on its measurement only.  *)

PingWith(probe_id, avg, loss, distance_km) ==
    [Ping(probe_id, avg, loss, <<>>) EXCEPT !.distance_km = distance_km]

\* The latency and the loss a probe reports.
OutlierReports ==
    {<<None, None>>, <<Some(0), Some(0)>>, <<Some(100), Some(60)>>,
     <<Some(100), None>>, <<None, Some(60)>>}

\* A probe is absent from the measurement or has one ping record.
P1Reports == {<<>>} \cup {<<PingWith(Some("p1"), r[1], r[2], None)>> : r \in OutlierReports}
P2Reports == {<<>>} \cup {<<PingWith(Some("p2"), r[1], r[2], None)>> : r \in OutlierReports}
P3Reports == {<<>>} \cup {<<PingWith(Some("p3"), r[1], r[2], None)>> : r \in OutlierReports}

\* Losses of 2, 3 and 60 percent.
LossScenario ==
    <<PingWith(Some("p1"), None, Some(2), None), PingWith(Some("p2"), None, Some(3), None),
      PingWith(Some("p3"), None, Some(60), None)>>
\* A loss far above the mean and below the floor.
LowLossScenario ==
    <<PingWith(Some("p1"), None, Some(0), None), PingWith(Some("p2"), None, Some(0), None),
      PingWith(Some("p3"), None, Some(4), None)>>
\* Probe p1 at 500 km with 40 ms, probe p2 at 50 km with 120 ms.
GeoScenario ==
    <<PingWith(Some("p1"), Some(40), None, Some(500)),
      PingWith(Some("p2"), Some(120), None, Some(50))>>
\* Two ping records of probe p1: the later one replaces the earlier in every map.
RepeatedScenarios ==
    {<<PingWith(Some("p1"), a, None, None), PingWith(Some("p2"), Some(0), None, None),
       PingWith(Some("p3"), Some(0), None, None), PingWith(Some("p1"), b, None, None)>> :
         a \in {Some(0), Some(100)}, b \in {Some(0), Some(100)}}

OutlierData ==
    ({a \o b \o c : a \in P1Reports, b \in P2Reports, c \in P3Reports} \ {<<>>})
    \cup {LossScenario, LowLossScenario, GeoScenario} \cup RepeatedScenarios

AnalyzeReports == \E d \in OutlierData : analyze_measurement(d, NoFaults(d))

NextOutlier == AnalyzeReports

InitOutlier == InitWith([DefaultDetection EXCEPT !.enable_adaptive_baseline = FALSE])

SpecOutlier == InitOutlier /\ [][NextOutlier]_vars

ProbeSeq == <<"p1", "p2", "p3">>

\* What a probe reports in a measurement: the fields of its last ping record.
LatencyOf(d, p) == IF PingsOf(d, p) = <<>> THEN None ELSE Last(PingsOf(d, p)).avg
LossOf(d, p) ==
    IF PingsOf(d, p) = <<>> THEN None ELSE Last(PingsOf(d, p)).packet_loss_percentage
DistanceOf(d, p) == IF PingsOf(d, p) = <<>> THEN None ELSE Last(PingsOf(d, p)).distance_km
LatenciesOf(d) == [i \in 1..Len(ProbeSeq) |-> LatencyOf(d, ProbeSeq[i])]
LossesOf(d) == [i \in 1..Len(ProbeSeq) |-> LossOf(d, ProbeSeq[i])]

\* The number of the non-null values among vals, and their sum.
CountOf(vals) == Cardinality({i \in 1..Len(vals) : vals[i] # None})
TotalOf(vals) == SeqSum([i \in 1..Len(vals) |-> IF vals[i] = None THEN 0 ELSE Val(vals[i])])

\* value is non-null and above outlier_factor times the mean of the non-null vals.
ExceedsMean(value, vals) ==
    value # None /\ Val(value) * CountOf(vals) > outlier_factor * TotalOf(vals)

\* C14 as claimed: with geo detection enabled, a geo_anomaly event with p's latency as
\* value and q's latency as threshold is emitted for p exactly for the ordered pairs of
\* distinct ping probes (p, q) with non-null distances, distance(p) > distance(q) and
\* latency(p) < latency(q) - margin; so probe p1 at 500 km with 40 ms gets one against
\* probe p2 at 50 km with 120 ms.
C14_Original ==
    config.enable_geo_anomaly_detection
    => \A p \in OutlierProbes : \A q \in OutlierProbes \ {p} :
          geo_anomaly_check(DistanceOf(data, p), LatencyOf(data, p),
                            DistanceOf(data, q), LatencyOf(data, q), geo_anomaly_margin_ms)
          <=> \E i \in 1..Len(events) :
                 /\ events[i].anomaly = "geo_anomaly"
                 /\ events[i].probe_id = p
                 /\ events[i].value = LatencyOf(data, p)
                 /\ events[i].threshold = LatencyOf(data, q)

\* C15: with outlier detection enabled, a probe gets an outlier_probe_latency event
\* (one, a warning, without threshold, with its latency as value) if and only if its
\* latency is non-null and above outlier_factor times the mean of the non-null
\* latencies of the measurement, its own among them.
C15_LatencyOutlierIffAboveMean ==
    config.enable_outlier_detection
    => \A p \in OutlierProbes :
          LET flagged == EventsOf("outlier_probe_latency", p)
          IN IF ExceedsMean(LatencyOf(data, p), LatenciesOf(data))
             THEN /\ Len(flagged) = 1
                  /\ flagged[1].severity = "warning"
                  /\ flagged[1].threshold = None
                  /\ flagged[1].value = LatencyOf(data, p)
             ELSE flagged = <<>>

\* C15's case: latencies of 100, 0 and 0, and the event of the first probe alone.
C15_Witness ==
    /\ LatenciesOf(data) = <<Some(100), Some(0), Some(0)>>
    /\ Len(EventsOf("outlier_probe_latency", "p1")) = 1
    /\ EventsOf("outlier_probe_latency", "p2") = <<>>

\* A probe has one outlier_probe_loss event (a warning, with its loss as value) if its
\* loss is above 5 and above outlier_factor times the mean of the non-null losses of
\* the measurement, its own among them, and none otherwise.
LossOutlierIffAboveFloorAndMean ==
    config.enable_outlier_detection
    => \A p \in OutlierProbes :
          LET flagged == EventsOf("outlier_probe_loss", p)
              loss == LossOf(data, p)
          IN IF loss # None /\ Val(loss) > 5 /\ ExceedsMean(loss, LossesOf(data))
             THEN /\ Len(flagged) = 1
                  /\ flagged[1].severity = "warning"
                  /\ flagged[1].value = loss
             ELSE flagged = <<>>

\* C16 as claimed: the rule above, and no outlier_probe_loss event for the losses 2, 3
\* and 60.
C16_Original ==
    /\ LossOutlierIffAboveFloorAndMean
    /\ data = LossScenario
       => \A p \in OutlierProbes : EventsOf("outlier_probe_loss", p) = <<>>

\* C16 as amended: the rule above, by which the losses 2, 3 and 60 (mean 21.67, twice
\* the mean 43.33) get the probe with 60 one outlier_probe_loss event and the others
\* none.
C16_LossOutlierFlagsSixty ==
    /\ LossOutlierIffAboveFloorAndMean
    /\ data = LossScenario
       => /\ Len(EventsOf("outlier_probe_loss", "p3")) = 1
          /\ EventsOf("outlier_probe_loss", "p1") = <<>>
          /\ EventsOf("outlier_probe_loss", "p2") = <<>>

\* C16's case: the losses 2, 3 and 60 and the event of the probe with 60.
C16_Witness ==
    /\ LossesOf(data) = <<Some(2), Some(3), Some(60)>>
    /\ \E i \in 1..Len(events) :
          /\ events[i].anomaly = "outlier_probe_loss"
          /\ events[i].probe_id = "p3"
          /\ events[i].value = Some(60)

\* C17: a probe that is the only one of the measurement to report a latency gets no
\* outlier_probe_latency event, and one that is the only one to report a loss gets no
\* outlier_probe_loss event (outlier_factor is 2, at least 1; the values are not
\* negative).
C17_NoSelfFlagging ==
    \A p \in OutlierProbes :
        /\ (LatencyOf(data, p) # None /\ CountOf(LatenciesOf(data)) = 1)
           => EventsOf("outlier_probe_latency", p) = <<>>
        /\ (LossOf(data, p) # None /\ CountOf(LossesOf(data)) = 1)
           => EventsOf("outlier_probe_loss", p) = <<>>

\* C17's case: probe p1 alone reports a latency and a loss, next to two probes that
\* report neither, and is not flagged.
C17_Witness ==
    /\ LatenciesOf(data) = <<Some(100), None, None>>
    /\ LossesOf(data) = <<Some(60), None, None>>
    /\ Len(data) = 3
    /\ EventsOf("outlier_probe_latency", "p1") = <<>>
    /\ EventsOf("outlier_probe_loss", "p1") = <<>>
    /\ EventsOf("packet_loss", "p1") # <<>>

----------------------------------------------------------------------------
(* Analyses in a row: measurements of pings and traceroutes, under healthy I/O and *)
(* the default configuration.                                                      *)

RepeatPings == {<<Ping(Some("p1"), avg, None, <<>>)>> : avg \in {None, Some(0), Some(100), Some(300)}}
RepeatTraceroutes == {<<Traceroute(Some("p1"), hops)>> : hops \in {<<>>, RouteABC, RouteABD}}
\* A ping and a traceroute in one measurement, of one probe or of two.
RepeatMixed ==
    {<<Ping(Some("p1"), Some(300), None, <<>>), Traceroute(Some("p1"), RouteABD)>>,
     <<Ping(Some("p2"), Some(100), None, <<>>), Traceroute(Some("p1"), RouteABC)>>}
\* Two records of a kind of one probe in one measurement.
RepeatTwice ==
    {<<Ping(Some("p1"), Some(100), None, <<>>), Ping(Some("p1"), Some(300), None, <<>>)>>,
     <<Traceroute(Some("p1"), RouteABC), Traceroute(Some("p1"), RouteABD)>>}
RepeatData == RepeatPings \cup RepeatTraceroutes \cup RepeatMixed \cup RepeatTwice

AnalyzeInARow == \E d \in RepeatData : analyze_measurement(d, NoFaults(d))

NextRepeat == AnalyzeInARow

SpecRepeat == Init /\ [][NextRepeat]_vars

\* No route_change event and no latency_spike event other than the static one.
Quiet(evs) ==
    \A i \in 1..Len(evs) :
        /\ evs[i].anomaly # "route_change"
        /\ evs[i].anomaly = "latency_spike" => evs[i].threshold = Some(latency_spike_ms)

\* No probe has two records of a kind in the measurement.
OneRecordPerKind(d) ==
    \A i \in 1..Len(d) : \A j \in 1..Len(d) :
        (/\ i # j
         /\ d[i].probe_id # None
         /\ d[i].probe_id = d[j].probe_id)
        => d[i].measurement_type # d[j].measurement_type

----------------------------------------------------------------------------
(* Records without probe_id, alone and among others.  The files such a record      *)
(* would touch may fail in any way.                                                *)

SkippedRecords ==
    {Ping(None, Some(300), Some(100), <<10, 50>>), Traceroute(None, RouteABC)}
KeptPings == {Ping(Some("p1"), Some(300), None, <<>>)}
KeptTraceroutes == {Traceroute(Some("p1"), hops) : hops \in {RouteABC, RouteABD}}
SkipData ==
    {<<r>> : r \in SkippedRecords \cup KeptPings \cup KeptTraceroutes}
    \cup {<<r, k>> : r \in SkippedRecords, k \in KeptPings \cup KeptTraceroutes}
    \cup {<<k, r>> : r \in SkippedRecords, k \in KeptPings \cup KeptTraceroutes}

\* The faults the files of a record without probe_id would meet.
SkippedFaults == {"none", "read_error", "write_dump_error"}

\* The fault f meets the records without probe_id, the others meet none.
FaultsOfSkipped(d, f) == [i \in 1..Len(d) |-> IF d[i].probe_id = None THEN f ELSE "none"]

AnalyzeWithSkipped ==
    \E d \in SkipData : \E f \in SkippedFaults :
        analyze_measurement(d, FaultsOfSkipped(d, f))

NextSkipped == AnalyzeWithSkipped

SpecSkipped == Init /\ [][NextSkipped]_vars

\* The records of a measurement that have a probe_id.
WithProbe(d) == SelectSeq(d, LAMBDA r : r.probe_id # None)

\* C19: an analysis leaves what the analysis of the measurement without its probe_id-less
\* records leaves under healthy I/O: the same maps, baseline files, route history and
\* events, and no exception; a measurement of such records alone leaves empty maps and
\* no event, and changes no file and no history.
C19_RecordWithoutProbeIsSkipped ==
    [][\E kept \in {WithProbe(data')} :
       \E col \in {_collect_probe_data(baseline_rtt_files, baseline_hops_files, kept,
                                       NoFaults(kept), config)} :
       \E routing \in {_detect_routing_anomalies(col.pd, route_history)} :
          /\ raised' = ""
          /\ probe_data' = col.pd
          /\ baseline_rtt_files' = col.rtt_files
          /\ baseline_hops_files' = col.hops_files
          /\ route_history' = routing.history
          /\ events' = _detect_outlier_anomalies(col.pd, config)
                       \o _detect_threshold_anomalies(col.pd) \o routing.events
          /\ kept = <<>> => /\ probe_data' = EmptyProbeData
                            /\ events' = <<>>
                            /\ UNCHANGED <<baseline_rtt_files, baseline_hops_files,
                                           route_history>>]_vars

\* C19's case: a traceroute record without probe_id, whose files would fail on write,
\* before a ping record of probe p1, which alone is in the maps and in the events.
C19_Witness ==
    /\ data = <<Traceroute(None, RouteABC), Ping(Some("p1"), Some(300), None, <<>>)>>
    /\ io_faults = <<"write_dump_error", "none">>
    /\ DictKeys(probe_data.targets) = <<"p1">>
    /\ probe_data.traceroute_hops = <<>>
    /\ \A k \in Keys : baseline_hops_files[k] = Absent /\ route_history[k] = <<>>
    /\ Len(events) = 1
    /\ events[1].probe_id = "p1"

----------------------------------------------------------------------------
(* The adaptive baseline switched on or off, over a baseline directory that may    *)
(* hold a latency baseline an earlier run wrote.                                   *)

\* The baseline directory at the start: empty, or with a latency baseline of 50 ms
\* for probe p1.
EarlierBaselines ==
    {[k \in Keys |-> Absent],
     [k \in Keys |-> IF k = <<"p1", Some("t1")>> THEN JsonFile(50) ELSE Absent]}

InitAdaptive ==
    \E adaptive \in BOOLEAN : \E files \in EarlierBaselines :
        /\ baseline_rtt_files = files
        /\ baseline_hops_files = [k \in Keys |-> Absent]
        /\ route_history = [k \in Keys |-> <<>>]
        /\ config = [DefaultDetection EXCEPT !.enable_adaptive_baseline = adaptive]
        /\ data = <<>>
        /\ io_faults = <<>>
        /\ probe_data = EmptyProbeData
        /\ events = <<>>
        /\ raised = ""
        /\ last_rtt = [k \in Keys |-> files[k].val]
        /\ last_hops = [k \in Keys |-> None]
        /\ observed = [k \in Keys |-> <<>>]
        /\ repeated = FALSE
        /\ NoBatch

AdaptivePings ==
    {<<Ping(Some(p), avg, None, <<>>)>> : p \in Probes, avg \in {None, Some(100), Some(300)}}
AdaptiveTraceroutes ==
    {<<Traceroute(Some("p1"), hops)>> : hops \in {<<>>, RouteABC, RouteABD}}
AdaptiveData ==
    AdaptivePings \cup AdaptiveTraceroutes
    \cup {<<Ping(Some("p1"), Some(300), None, <<>>), Traceroute(Some("p2"), RouteABC)>>}

AnalyzeAdaptive == \E d \in AdaptiveData : analyze_measurement(d, NoFaults(d))

NextAdaptive == AnalyzeAdaptive

SpecAdaptive == InitAdaptive /\ [][NextAdaptive]_vars

\* C20: with enable_adaptive_baseline false an analysis changes no latency baseline
\* file, collects no latency baseline and emits no adaptive latency_spike event, while
\* every traceroute record still gets the stored hop baseline as its previous hops and
\* leaves its own hop list in the file.
C20_AdaptiveOffLeavesLatencyBaseline ==
    [][~config.enable_adaptive_baseline
       => /\ baseline_rtt_files' = baseline_rtt_files
          /\ probe_data'.baseline_rtts = <<>>
          /\ \A i \in 1..Len(events') :
                events'[i].anomaly = "latency_spike"
                => events'[i].threshold = Some(latency_spike_ms)
          /\ \A i \in 1..Len(data') :
                data'[i].measurement_type = "traceroute"
                => /\ baseline_hops_files'[KeyOf(data'[i])]
                      = JsonFile(HopIps(data'[i].hops))
                   /\ DictGet(probe_data'.baseline_hops, Val(data'[i].probe_id))
                      = baseline_hops_files[KeyOf(data'[i])].val]_vars

\* C20's case: the flag is off, probe p1 has a stored baseline of 50 ms and reports
\* 300 ms: the file keeps 50 and the one latency_spike event is the static one.
C20_Witness ==
    /\ ~config.enable_adaptive_baseline
    /\ data = <<Ping(Some("p1"), Some(300), None, <<>>)>>
    /\ baseline_rtt_files[<<"p1", Some("t1")>>] = JsonFile(50)
    /\ baseline_hops_files[<<"p1", Some("t1")>>] = JsonFile(<<"A", "B", "D">>)
    /\ Len(events) = 1
    /\ events[1].anomaly = "latency_spike"
    /\ events[1].threshold = Some(latency_spike_ms)

----------------------------------------------------------------------------
(* save_events and _create_analysis_summary *)

\* A variant of the loop body that keeps each probe's anomalies as a set of kinds: a
\* kind the probe already has is not appended again.
SummaryStepKindsOnce(acc, event) ==
    LET seen == DictGet(acc.per_probe, event.probe_id)
        info == IF seen = None THEN [target |-> event.target, anomalies |-> <<>>]
                ELSE Val(seen)
        count == DictGet(acc.anomaly_summary, event.anomaly)
    IN [per_probe |->
            IF event.probe_id # ""
            THEN DictSet(acc.per_probe, event.probe_id,
                         Some([info EXCEPT !.anomalies =
                                  IF event.anomaly \in Range(@) THEN @
                                  ELSE Append(@, event.anomaly)]))
            ELSE acc.per_probe,
        anomaly_summary |->
            DictSet(acc.anomaly_summary, event.anomaly,
                    Some((IF count = None THEN 0 ELSE Val(count)) + 1))]

\* One pass of the loop of _create_analysis_summary over the events.
SummaryStep(acc, event) ==
    LET seen == DictGet(acc.per_probe, event.probe_id)
        info == IF seen = None THEN [target |-> event.target, anomalies |-> <<>>]
                ELSE Val(seen)
        count == DictGet(acc.anomaly_summary, event.anomaly)
    IN [per_probe |->
            IF event.probe_id # ""
            THEN DictSet(acc.per_probe, event.probe_id,
                         Some([info EXCEPT !.anomalies = Append(@, event.anomaly)]))
            ELSE acc.per_probe,
        anomaly_summary |->
            DictSet(acc.anomaly_summary, event.anomaly,
                    Some((IF count = None THEN 0 ELSE Val(count)) + 1))]

RECURSIVE SummaryFrom(_, _, _)
SummaryFrom(acc, evs, i) ==
    IF i > Len(evs) THEN acc ELSE SummaryFrom(SummaryStep(acc, evs[i]), evs, i + 1)

_create_analysis_summary(evs) ==
    LET acc == SummaryFrom([per_probe |-> <<>>, anomaly_summary |-> <<>>], evs, 1)
    IN [per_probe |->
            [i \in 1..Len(acc.per_probe) |->
                [k |-> acc.per_probe[i].k,
                 v |-> [target |-> Val(acc.per_probe[i].v).target,
                        anomalies |-> Val(acc.per_probe[i].v).anomalies,
                        anomaly_count |-> Len(Val(acc.per_probe[i].v).anomalies)]]],
        anomaly_summary |->
            [i \in 1..Len(acc.anomaly_summary) |->
                [k |-> acc.anomaly_summary[i].k, v |-> Val(acc.anomaly_summary[i].v)]],
        total_anomalies |-> Len(evs),
        unique_probes_affected |-> Len(acc.per_probe)]

\* What can go wrong with the report file: open(out_file, "w") fails and leaves the
\* file as it was, or the dump fails after the open truncated it.
SaveFaults == {"none", "write_open_error", "write_dump_error"}

\* A variant of save_events that opens the report for appending: the events of the
\* earlier analyses stay in front of the new ones.
SaveEventsMerged(files, measurement_id, evs, fault) ==
    [files EXCEPT ![measurement_id] =
        IF fault = "write_open_error" THEN @
        ELSE IF fault = "write_dump_error" THEN TruncatedReport
        ELSE Report(@.events \o evs, _create_analysis_summary(@.events \o evs))]

\* save_events: the results directory it leaves.  Its IOError is caught and logged.
save_events(files, measurement_id, evs, fault) ==
    [files EXCEPT ![measurement_id] =
        IF fault = "write_open_error" THEN @
        ELSE IF fault = "write_dump_error" THEN TruncatedReport
        ELSE Report(evs, _create_analysis_summary(evs))]

----------------------------------------------------------------------------
(* analyze_all and _analyze_single_file *)

\* A file measurement_*_result.json: one open() fails on, one json.load cannot decode,
\* or a JSON object with its measurement_id (None when absent) and its results (None
\* when null, which the loop of _collect_probe_data cannot iterate).
UnreadableFile == [tag |-> "unreadable", measurement_id |-> None, results |-> None]
UnparseableFile == [tag |-> "unparseable", measurement_id |-> None, results |-> None]
MeasurementFile(measurement_id, results) ==
    [tag |-> "json", measurement_id |-> measurement_id, results |-> results]

\* What _analyze_single_file raises before it calls analyze_measurement, "" if nothing.
ReadError(file) ==
    IF file.tag = "unreadable" THEN "IOError"
    ELSE IF file.tag = "unparseable" THEN "JSONDecodeError"
    ELSE ""

\* A variant of the except clause of analyze_all that names the errors of the read.
CaughtReadErrorsOnly == {"IOError", "JSONDecodeError"}

\* except Exception, in analyze_all: every exception the model raises is one.
CaughtByBatch == {"IOError", "JSONDecodeError", "TypeError", "KeyError"}

\* The loop of analyze_all after an exception exc of _analyze_single_file.
FileFailed(exc) ==
    /\ IF exc \in CaughtByBatch
       THEN /\ error_count' = error_count + 1
            /\ file_index' = file_index + 1
            /\ batch_raised' = batch_raised
       ELSE /\ error_count' = error_count
            /\ file_index' = Len(result_files) + 1
            /\ batch_raised' = exc
    /\ UNCHANGED <<processed_count, reports>>

\* The loop of analyze_all after _analyze_single_file returned.
FileProcessed ==
    /\ processed_count' = processed_count + 1
    /\ file_index' = file_index + 1
    /\ UNCHANGED <<error_count, batch_raised>>

EngineVars ==
    <<baseline_rtt_files, baseline_hops_files, route_history, config, data, io_faults,
      probe_data, events, raised, last_rtt, last_hops, observed, repeated>>

\* A variant in which the IOError of the report write leaves save_events and reaches
\* the except clause of analyze_all.
SaveAndRaise(measurement_id, save_fault) ==
    /\ reports' = save_events(reports, measurement_id, events', save_fault)
    /\ IF save_fault = "none"
       THEN FileProcessed
       ELSE /\ error_count' = error_count + 1
            /\ file_index' = file_index + 1
            /\ UNCHANGED <<processed_count, batch_raised>>

\* self.save_events(measurement_id, events); return events: whatever became of the
\* write, _analyze_single_file returns to the loop.
SaveAndReturn(measurement_id, save_fault) ==
    /\ reports' = save_events(reports, measurement_id, events', save_fault)
    /\ FileProcessed

\* One pass of the loop of analyze_all: _analyze_single_file on the next file, the
\* write of the report meeting save_fault.
AnalyzeNextFile(save_fault) ==
    /\ file_index <= Len(result_files)
    /\ UNCHANGED <<result_files, invocations>>
    /\ LET file == result_files[file_index]
       IN IF ReadError(file) # ""
          THEN FileFailed(ReadError(file)) /\ UNCHANGED EngineVars
          ELSE IF ~TruthyStr(file.measurement_id)
          THEN FileProcessed /\ UNCHANGED reports /\ UNCHANGED EngineVars
          ELSE IF file.results = None
          THEN FileFailed("TypeError") /\ UNCHANGED EngineVars
          ELSE /\ Analysis(Val(file.results), NoFaults(Val(file.results)))
               /\ IF raised' # ""
                  THEN FileFailed(raised')
                  ELSE SaveAndReturn(Val(file.measurement_id), save_fault)

\* analyze_all starts: the files its glob found; with none it returns at once.
StartBatch(files) ==
    /\ file_index > Len(result_files)
    /\ result_files' = files
    /\ file_index' = 1
    /\ processed_count' = 0
    /\ error_count' = 0
    /\ batch_raised' = ""
    /\ UNCHANGED <<reports, invocations>>
    /\ UNCHANGED EngineVars

----------------------------------------------------------------------------
(* Batch runs over directories of up to MaxFiles files, good and bad. *)

MaxFiles == 3

\* Measurement m1: two probes at 300 ms, the first losing every packet.
PingFile ==
    MeasurementFile(Some("m1"), Some(<<Ping(Some("p1"), Some(300), Some(100), <<>>),
                                       Ping(Some("p2"), Some(300), None, <<>>)>>))
\* A file without measurement_id, and a file whose results are null.
NoIdFile == MeasurementFile(None, Some(<<Ping(Some("p1"), Some(300), None, <<>>)>>))
NullResultsFile == MeasurementFile(Some("m2"), None)

BatchFiles == {PingFile, NoIdFile, NullResultsFile, UnreadableFile, UnparseableFile}

RECURSIVE ListsOver(_, _)
\* The sequences of at most n elements of S.
ListsOver(S, n) ==
    IF n = 0 THEN {<<>>}
    ELSE LET shorter == ListsOver(S, n - 1)
         IN shorter \cup {Append(l, x) : l \in shorter, x \in S}

BatchLists == ListsOver(BatchFiles, MaxFiles)

analyze_all == \E files \in BatchLists : StartBatch(files)

_analyze_single_file == \E save_fault \in SaveFaults : AnalyzeNextFile(save_fault)

NextBatch == analyze_all \/ _analyze_single_file

SpecBatch == Init /\ [][NextBatch]_vars

\* The runs whose ending is checked: directories of up to MaxFairFiles files, of which
\* one is analyzed, one fails to parse and one fails in the analysis.
MaxFairFiles == 2
FairBatchFiles == {PingFile, NullResultsFile, UnparseableFile}
FairBatchLists == ListsOver(FairBatchFiles, MaxFairFiles)

NextBatchFair == (\E files \in FairBatchLists : StartBatch(files)) \/ _analyze_single_file

\* The for loop of analyze_all takes its next file.
LoopAdvances == file_index <= Len(result_files) /\ file_index' = file_index + 1

\* The loop of analyze_all goes on: nothing outside the process stops it, and its body
\* is one synchronous call.  The steps are those of NextBatchFair; LoopStepExists is the
\* condition under which the step that fairness asks for is one of them.
SpecBatchFair == Init /\ [][NextBatchFair]_vars /\ WF_file_index(LoopAdvances)
LoopStepExists == ENABLED (LoopAdvances /\ _analyze_single_file)

BatchDone == file_index > Len(result_files)

\* C21: a batch run propagates no exception, has attempted as many files as its counts
\* sum to at every point of its loop, can always take its next file, and comes to its
\* end, where the counts sum to the number of files found, whatever files failed before.
C21_BatchCompletes ==
    /\ [](batch_raised = "")
    /\ [](processed_count + error_count = file_index - 1)
    /\ [](BatchDone => processed_count + error_count = Len(result_files))
    /\ [](~BatchDone => LoopStepExists)
    /\ [](~BatchDone => <>BatchDone)

\* C21's case: a run over a file that fails in the analysis and a good file, which is
\* analyzed and reported after the failure.
C21_Witness ==
    /\ result_files = <<NullResultsFile, PingFile>>
    /\ BatchDone
    /\ error_count = 1
    /\ processed_count = 1
    /\ reports["m1"].tag = "json"
    /\ batch_raised = ""

----------------------------------------------------------------------------
(* Reports under healthy report I/O: directories that hold two results of the same *)
(* measurement id, a result of another id and a file that fails.                   *)

\* Measurement m1 again, with other content: one probe at 100 ms losing half its packets.
LossyFile ==
    MeasurementFile(Some("m1"), Some(<<Ping(Some("p1"), Some(100), Some(50), <<>>)>>))
\* Measurement m2: one probe at 300 ms.
OtherFile == MeasurementFile(Some("m2"), Some(<<Ping(Some("p2"), Some(300), None, <<>>)>>))

ReportFiles == {PingFile, LossyFile, OtherFile, UnparseableFile}
ReportLists == ListsOver(ReportFiles, MaxFiles)

AnalyzeReportFiles == \E files \in ReportLists : StartBatch(files)
AnalyzeAndSave == AnalyzeNextFile("none")

NextReports == AnalyzeReportFiles \/ AnalyzeAndSave

SpecReports == Init /\ [][NextReports]_vars

\* The pass of the loop that is being taken analyzed and saved measurement id.
Saved(id) ==
    /\ LoopAdvances
    /\ result_files[file_index].measurement_id = Some(id)
    /\ processed_count' = processed_count + 1

\* C22: every pass of the loop that analyzes a measurement leaves as the report of its
\* id exactly the events of that analysis, whatever the report held before, and no pass
\* changes the report of an id it did not analyze.
C22_ReportIsLastAnalysis ==
    [][\A id \in MeasurementIds :
         IF Saved(id)
         THEN reports'[id].tag = "json" /\ reports'[id].events = events'
         ELSE reports'[id] = reports[id]]_vars

\* C22's case: m1 was analyzed twice in one run, m2 between the two; the report of m1
\* holds the one event of its second analysis and the report of m2 is still there.
C22_Witness ==
    /\ result_files = <<PingFile, OtherFile, LossyFile>>
    /\ BatchDone
    /\ Len(reports["m1"].events) = 1
    /\ reports["m1"].events[1].anomaly = "packet_loss"
    /\ reports["m2"].tag = "json"
    /\ Len(reports["m2"].events) = 1

\* The probes of the events of a report, and where a probe stands in per_probe.
ProbesIn(evs) == {evs[i].probe_id : i \in 1..Len(evs)}
EventsOfProbe(evs, p) == {i \in 1..Len(evs) : evs[i].probe_id = p}

\* C23: in every report total_anomalies is the number of events and the sum of the
\* counts of anomaly_summary, unique_probes_affected is the number of distinct probe ids
\* of the events, and per_probe holds exactly these probes, each with the number of its
\* events as anomaly_count.
C23_SummaryCountsEvents ==
    \A id \in MeasurementIds :
        reports[id].tag = "json" =>
            LET evs == reports[id].events
                analysis == Val(reports[id].analysis)
            IN /\ analysis.total_anomalies = Len(evs)
               /\ analysis.total_anomalies = SeqSum(DictValues(analysis.anomaly_summary))
               /\ analysis.unique_probes_affected = Cardinality(ProbesIn(evs))
               /\ Range(DictKeys(analysis.per_probe)) = ProbesIn(evs)
               /\ Len(analysis.per_probe) = Cardinality(ProbesIn(evs))
               /\ \A i \in 1..Len(analysis.per_probe) :
                      analysis.per_probe[i].v.anomaly_count =
                          Cardinality(EventsOfProbe(evs, analysis.per_probe[i].k))

\* C23's case: a report of two probes in which one probe has two events of one kind, the
\* static and the adaptive latency spike, and events of other kinds.
C23_Witness ==
    /\ reports["m1"].tag = "json"
    /\ Val(reports["m1"].analysis).unique_probes_affected = 2
    /\ Val(reports["m1"].analysis).total_anomalies = 5
    /\ DictGet(Val(reports["m1"].analysis).anomaly_summary, "latency_spike") = 3
    /\ Cardinality(EventsOfProbe(reports["m1"].events, "p1")) = 4

----------------------------------------------------------------------------
(* Two processes in _get_and_update_baseline_rtt on one key.  The steps of a call   *)
(* that touch the file are the read of the existing file, open(file, "w"), which    *)
(* truncates it, and the write of the buffered text at offset 0 when the with block *)
(* closes the file.  Nothing orders the steps of the two processes.                 *)

RaceKey == <<"p1", Some("t1")>>

\* The latencies the two calls store: their texts differ in length.
RaceValues == {50, 100}

DigitChars == <<"0", "1", "2", "3", "4", "5", "6", "7", "8", "9">>

RECURSIVE DigitsOf(_)
\* str() of a natural number, a character per element.
DigitsOf(n) ==
    IF n < 10 THEN <<DigitChars[n + 1]>>
    ELSE Append(DigitsOf(n \div 10), DigitChars[(n % 10) + 1])

\* json.dump({"avg_rtt": v}) for the float v: the key with its punctuation is one
\* element, every character after it an element of its own.
DumpRtt(v) == <<"{\"avg_rtt\": ">> \o DigitsOf(v) \o <<".", "0", "}">>

DigitValue(c) == CHOOSE d \in 0..9 : DigitChars[d + 1] = c

RECURSIVE NumberOf(_)
\* int() of a sequence of digit characters.
NumberOf(digits) ==
    IF digits = <<>> THEN 0
    ELSE 10 * NumberOf(SubSeq(digits, 1, Len(digits) - 1))
         + DigitValue(digits[Len(digits)])

\* json.load(bf).get("avg_rtt") on the text of a baseline file: the object must end
\* where the text ends (anything after it is "Extra data"), and an empty text is no
\* document at all.
LoadRtt(text) ==
    LET n == Len(text)
        digits == SubSeq(text, 2, n - 3)
    IN IF /\ n >= 5
          /\ text[1] = "{\"avg_rtt\": "
          /\ text[n - 2] = "." /\ text[n - 1] = "0" /\ text[n] = "}"
          /\ \A i \in 1..Len(digits) : digits[i] \in Range(DigitChars)
       THEN [exc |-> "", val |-> Some(NumberOf(digits))]
       ELSE [exc |-> "JSONDecodeError", val |-> None]

\* A write of text at offset 0 of a file that holds old: what old has beyond the
\* length of text stays.
WriteAtStart(old, text) == text \o SubSeq(old, Len(text) + 1, Len(old))

\* The baseline file as the store of the model sees it: bytes is None for no file.
FileOfBytes(bytes) ==
    IF bytes = None THEN Absent
    ELSE IF LoadRtt(Val(bytes)).exc # "" THEN Corrupt
    ELSE JsonFile(Val(LoadRtt(Val(bytes)).val))

\* A call that has not read yet.
NewCall(current_rtt) ==
    [pc |-> "read", current_rtt |-> current_rtt, baseline_rtt |-> None, wrote |-> FALSE]

CallsDone ==
    invocations # <<>> /\ \A p \in 1..Len(invocations.calls) : invocations.calls[p].pc = "done"

\* The variables a step of a call leaves alone.
OutsideCall ==
    <<baseline_hops_files, route_history, config, data, io_faults, probe_data, events,
      raised, last_rtt, last_hops, observed, repeated, result_files, file_index,
      processed_count, error_count, batch_raised, reports>>

\* The file of the key follows the bytes on disk.
BytesBecome(bytes) ==
    baseline_rtt_files' = [baseline_rtt_files EXCEPT ![RaceKey] = FileOfBytes(bytes)]

\* Two processes enter the method with latencies a and b; the file is what the calls
\* before them left.
StartInvocations(a, b) ==
    /\ invocations = <<>> \/ CallsDone
    /\ invocations' = [bytes |-> IF invocations = <<>> THEN None ELSE invocations.bytes,
                       calls |-> <<NewCall(a), NewCall(b)>>]
    /\ UNCHANGED baseline_rtt_files
    /\ UNCHANGED OutsideCall

\* if baseline_file.exists(): json.load(bf).get("avg_rtt"); a decode error leaves the
\* try block, past the write.
ProcessReads(p) ==
    /\ invocations # <<>>
    /\ invocations.calls[p].pc = "read"
    /\ LET call == invocations.calls[p]
           rd == IF invocations.bytes = None THEN [exc |-> "", val |-> None]
                 ELSE LoadRtt(Val(invocations.bytes))
       IN invocations' =
              [invocations EXCEPT !.calls[p] =
                  IF rd.exc \in CaughtExceptions
                  THEN [call EXCEPT !.pc = "done"]
                  ELSE [call EXCEPT !.pc = "open", !.baseline_rtt = rd.val]]
    /\ UNCHANGED baseline_rtt_files
    /\ UNCHANGED OutsideCall

\* open(baseline_file, "w"): the file exists and is empty.
ProcessOpens(p) ==
    /\ invocations # <<>>
    /\ invocations.calls[p].pc = "open"
    /\ invocations' = [invocations EXCEPT !.bytes = Some(<<>>), !.calls[p].pc = "write"]
    /\ BytesBecome(Some(<<>>))
    /\ UNCHANGED OutsideCall

\* The end of the with block: the text json.dump buffered goes to offset 0.
ProcessWrites(p) ==
    /\ invocations # <<>>
    /\ invocations.calls[p].pc = "write"
    /\ LET text == WriteAtStart(Val(invocations.bytes),
                                DumpRtt(invocations.calls[p].current_rtt))
       IN /\ invocations' = [invocations EXCEPT !.bytes = Some(text),
                                                !.calls[p].pc = "done",
                                                !.calls[p].wrote = TRUE]
          /\ BytesBecome(Some(text))
    /\ UNCHANGED OutsideCall

RaceProcs == {1, 2}

StartRace == \E a \in RaceValues : \E b \in RaceValues : StartInvocations(a, b)
ReadStep == \E p \in RaceProcs : ProcessReads(p)
OpenStep == \E p \in RaceProcs : ProcessOpens(p)
WriteStep == \E p \in RaceProcs : ProcessWrites(p)

NextRace == StartRace \/ ReadStep \/ OpenStep \/ WriteStep

SpecRace == Init /\ [][NextRace]_vars

BothWrote == CallsDone /\ \A p \in RaceProcs : invocations.calls[p].wrote

\* C24 as stated: once two concurrent calls on one key have both written, the stored
\* baseline is the latency of one of the two.
C24_Original ==
    BothWrote =>
        \E p \in RaceProcs :
            baseline_rtt_files[RaceKey] = JsonFile(invocations.calls[p].current_rtt)

----------------------------------------------------------------------------
(* Separate invocations: the engine is constructed again over the baseline          *)
(* directory the invocations before it left.                                        *)

\* The number of invocations the model runs one after the other.
MaxInvocations == 2

\* A variant of the constructor that finds the route history of the engine before it.
RouteHistoryKept(history) == history

\* self.route_history = {}
NewRouteHistory(history) == [k \in Keys |-> <<>>]

\* History: the observations of a key since the engine was constructed, the entry
\* <<>> in observed marking each construction after the first (no observation is
\* noted as <<>>).
RECURSIVE SinceStart(_)
SinceStart(obs) ==
    IF obs = <<>> \/ Last(obs) = <<>> THEN <<>>
    ELSE Append(SinceStart(SubSeq(obs, 1, Len(obs) - 1)), Last(obs))
RoutesOf(obs) == SelectSeq(obs, LAMBDA route : route # <<>>)
Constructions(obs) == 1 + Len(obs) - Len(RoutesOf(obs))

\* SintraEventManager(...): a new process over the same directories.  The baseline
\* files and the reports stay; what the engine before it held in memory is gone.
NewEngine ==
    /\ Constructions(observed[RaceKey]) < MaxInvocations
    /\ file_index > Len(result_files)
    /\ route_history' = NewRouteHistory(route_history)
    /\ observed' = [k \in Keys |-> Append(observed[k], <<>>)]
    /\ data' = <<>>
    /\ io_faults' = <<>>
    /\ probe_data' = EmptyProbeData
    /\ events' = <<>>
    /\ raised' = ""
    /\ repeated' = FALSE
    /\ UNCHANGED <<baseline_rtt_files, baseline_hops_files, config, last_rtt, last_hops,
                   result_files, file_index, processed_count, error_count, batch_raised,
                   reports, invocations>>

\* Traceroutes of one probe whose route alternates, and one without an answering hop.
AlternatingData ==
    {<<Traceroute(Some("p1"), hops)>> : hops \in {RouteABC, RouteABD, <<>>}}

\* An analysis of an invocation that observes no key more than flapping_window times.
AnalyzeWithinWindow ==
    /\ \E d \in AlternatingData : analyze_measurement(d, NoFaults(d))
    /\ \A k \in Keys : Len(SinceStart(observed'[k])) <= path_flapping_window

NextInvocations == NewEngine \/ AnalyzeWithinWindow

SpecInvocations == Init /\ [][NextInvocations]_vars

\* C25: the route history of an engine holds the observations of its own invocation
\* only, whatever the baseline files hold, and over invocations that each observe a
\* key at most flapping_window times no analysis emits a path_flapping event.
C25_NoFlappingAcrossInvocations ==
    /\ \A k \in Keys : route_history[k] = SinceStart(observed[k])
    /\ \A i \in 1..Len(events) : events[i].anomaly # "path_flapping"

\* C25's case: a second invocation observes a route that differs from the baseline the
\* first one left; the key has been observed more than flapping_window times in all, its
\* last flapping_window observations hold two routes, and the analysis emits the route
\* change alone.
C25_Witness ==
    /\ Constructions(observed[RaceKey]) = 2
    /\ Len(RoutesOf(observed[RaceKey])) > path_flapping_window
    /\ Cardinality(Range(LastN(RoutesOf(observed[RaceKey]), path_flapping_window))) > 1
    /\ Len(events) = 1
    /\ events[1].anomaly = "route_change"
    /\ events[1].probe_id = "p1"

----------------------------------------------------------------------------
(* Empty hop lists and the hop baseline, over the traceroute measurements of the   *)
(* routing detector.                                                               *)

\* The probe of key k has a traceroute record in the measurement results.
Observes(results, k) ==
    \E i \in 1..Len(results) :
        results[i].measurement_type = "traceroute" /\ KeyOf(results[i]) = k

\* C26: once the last traceroute observation of a key had an empty hop list, the hop
\* baseline of the key is the empty list, and the next observation of the key gets no
\* route_change event, whatever its path and whatever paths were observed before.
C26_EmptyHopsSilenceNextChange ==
    /\ [](\A k \in Keys : last_hops[k] = Some(<<>>) => baseline_hops_files[k] = JsonFile(<<>>))
    /\ [][\A k \in Keys :
            (last_hops[k] = Some(<<>>) /\ Observes(data', k))
            => EventsIn(events', "route_change", k[1]) = <<>>]_vars

\* C26's case: a key observed with the route ABC, then with no hop, then with ABD: the
\* history holds both routes, the baseline is ABD, and the analysis of ABD emitted
\* nothing.
C26_Witness ==
    /\ data = <<Traceroute(Some("p1"), RouteABD)>>
    /\ observed[RaceKey] = <<HopIps(RouteABC), HopIps(RouteABD)>>
    /\ baseline_hops_files[RaceKey] = JsonFile(HopIps(RouteABD))
    /\ events = <<>>

----------------------------------------------------------------------------
(* Several records of one probe in one measurement, over the analyses in a row.     *)

\* C27: when a probe has several traceroute records in the analyzed measurement, the
\* last of them is what the metric maps keep and the one before it is its previous
\* baseline; so when the two have different non-empty hop lists the analysis emits one
\* route_change event, from the one to the other, in the first analysis of the
\* measurement and in every analysis of it again.  With several ping records the
\* baseline of the last is the latency of the one before it.
C27_LaterRecordMeetsEarlierOne ==
    \A p \in Probes :
        /\ Len(TraceroutesOf(data, p)) >= 2
           => LET traces == TraceroutesOf(data, p)
                  earlier == HopIps(traces[Len(traces) - 1].hops)
                  later == HopIps(Last(traces).hops)
                  changes == EventsOf("route_change", p)
              IN /\ DictGet(probe_data.traceroute_hops, p) = Some(later)
                 /\ DictGet(probe_data.baseline_hops, p) = Some(earlier)
                 /\ baseline_hops_files[KeyOf(Last(traces))] = JsonFile(later)
                 /\ (earlier # <<>> /\ later # <<>> /\ earlier # later)
                    => /\ Len(changes) = 1
                       /\ changes[1].previous_hops = Some(earlier)
                       /\ changes[1].current_hops = Some(later)
        /\ (Len(PingsOf(data, p)) >= 2 /\ PingsOf(data, p)[Len(PingsOf(data, p)) - 1].avg # None)
           => /\ DictGet(probe_data.latencies, p) = Last(PingsOf(data, p)).avg
              /\ DictGet(probe_data.baseline_rtts, p)
                 = PingsOf(data, p)[Len(PingsOf(data, p)) - 1].avg

\* C27's case: the measurement with the routes ABC and ABD of probe p1 analyzed a second
\* time in a row, emitting the route change from ABC to ABD again.
C27_Witness ==
    /\ repeated
    /\ data = <<Traceroute(Some("p1"), RouteABC), Traceroute(Some("p1"), RouteABD)>>
    /\ Len(EventsOf("route_change", "p1")) = 1
    /\ EventsOf("route_change", "p1")[1].previous_hops = Some(HopIps(RouteABC))
    /\ EventsOf("route_change", "p1")[1].current_hops = Some(HopIps(RouteABD))

----------------------------------------------------------------------------
(* The flapping window past its first evaluation: traceroutes of one probe, the     *)
(* route history holding up to MaxHistory routes after each analysis.               *)

FlappingData == {<<Traceroute(Some("p1"), hops)>> : hops \in {<<>>, RouteABC, RouteABD}}

AnalyzeFlapping ==
    /\ \E d \in FlappingData : AnalysisBody(d, NoFaults(d))
    /\ HistorySize(route_history') <= MaxHistory
    /\ UNCHANGED <<result_files, file_index, processed_count, error_count, batch_raised,
                   reports, invocations>>

NextFlapping == AnalyzeFlapping

SpecFlapping == Init /\ [][NextFlapping]_vars

\* C28 as stated: at a call for a key whose history holds more than flapping_window
\* routes, a path_flapping event is emitted if and only if the last flapping_window
\* routes are not all the same.
C28_Original ==
    \A p \in Probes :
        (/\ TraceroutesOf(data, p) # <<>>
         /\ Len(route_history[KeyOf(Last(TraceroutesOf(data, p)))]) > path_flapping_window)
        => (EventsOf("path_flapping", p) # <<>>
            <=> Cardinality(Range(LastN(route_history[KeyOf(Last(TraceroutesOf(data, p)))],
                                        path_flapping_window))) > 1)

----------------------------------------------------------------------------
(* Reports that fail to be written: batch runs over measurements of a ping and a   *)
(* traceroute of one probe, the report of each written or failing to open.         *)

\* Measurement m1: probe p1 at 100 ms over the route ABC.
LowFile ==
    MeasurementFile(Some("m1"), Some(<<Ping(Some("p1"), Some(100), None, <<>>),
                                       Traceroute(Some("p1"), RouteABC)>>))
\* Measurement m2: probe p1 at 300 ms over the route ABD.
HighFile ==
    MeasurementFile(Some("m2"), Some(<<Ping(Some("p1"), Some(300), None, <<>>),
                                       Traceroute(Some("p1"), RouteABD)>>))
\* Measurement m1 with two ping records of the probe.
TwiceFile ==
    MeasurementFile(Some("m1"), Some(<<Ping(Some("p1"), Some(100), None, <<>>),
                                       Ping(Some("p1"), Some(300), None, <<>>)>>))

LostReportFiles == {LowFile, HighFile, TwiceFile}
LostReportLists == ListsOver(LostReportFiles, MaxFiles)

AnalyzeLostReportFiles == \E files \in LostReportLists : StartBatch(files)

\* The report is written, or open(out_file, "w") fails.
AnalyzeAndLose == \E save_fault \in {"none", "write_open_error"} : AnalyzeNextFile(save_fault)

NextLostReport == AnalyzeLostReportFiles \/ AnalyzeAndLose

SpecLostReport == Init /\ [][NextLostReport]_vars

\* The baseline files hold what the records of results handed to the store.
BaselinesHold(rtt_files, hops_files, results) ==
    \A i \in 1..Len(results) :
        /\ results[i].measurement_type = "traceroute"
           => hops_files[KeyOf(results[i])] = JsonFile(HopIps(results[i].hops))
        /\ (results[i].measurement_type = "ping" /\ results[i].avg # None)
           => rtt_files[KeyOf(results[i])] = JsonFile(Val(results[i].avg))

----------------------------------------------------------------------------
(* The events of every detector: pings of three probes, one of them far off the     *)
(* others, traceroutes whose route alternates, and records that name no target.     *)

\* The keys of ANOMALY_TYPES.
ANOMALY_TYPES ==
    {"latency_spike", "packet_loss", "unreachable_host", "route_change", "path_flapping",
     "geo_anomaly", "jitter_spike", "outlier_probe_latency", "outlier_probe_loss"}

\* The record without target_address and target.
Untargeted(result) == [result EXCEPT !.target_address = None, !.target = None]

EventData ==
    {<<Ping(Some("p1"), Some(300), Some(100), <<10, 50>>),
       Ping(Some("p2"), Some(10), Some(0), <<>>),
       Ping(Some("p3"), Some(10), Some(0), <<>>)>>,
     <<Traceroute(Some("p1"), RouteABC)>>,
     <<Traceroute(Some("p1"), RouteABD)>>,
     <<Untargeted(Ping(Some("p1"), Some(300), Some(100), <<>>))>>,
     <<Ping(Some("p2"), Some(300), Some(100), <<>>),
       Untargeted(Ping(Some("p2"), Some(300), Some(20), <<>>))>>,
     <<Ping(None, Some(300), Some(100), <<>>)>>}

AnalyzeEvents == \E d \in EventData : analyze_measurement(d, NoFaults(d))

NextEvents == AnalyzeEvents

SpecEvents == Init /\ [][NextEvents]_vars

\* result.get("target_address") or result.get("target") of the last record of the
\* probe: what probe_data['targets'] holds for it.
ResolvedTarget(results, p) ==
    PyOr(Last(RecordsOf(results, p)).target_address, Last(RecordsOf(results, p)).target)

\* C30: every event of an analysis has a kind of the catalog, the probe_id of a record
\* of the measurement, the resolved target of that probe, and the severity critical if
\* its kind is unreachable_host and warning if not.
C30_EventsAreWellFormed ==
    \A i \in 1..Len(events) :
        /\ events[i].anomaly \in ANOMALY_TYPES
        /\ RecordsOf(data, events[i].probe_id) # <<>>
        /\ events[i].target = ResolvedTarget(data, events[i].probe_id)
        /\ events[i].severity
           = IF events[i].anomaly = "unreachable_host" THEN "critical" ELSE "warning"

\* C30's case: an analysis that emitted events of six kinds, among them the critical
\* unreachable_host of probe p1.
C30_Witness ==
    /\ Cardinality({events[i].anomaly : i \in 1..Len(events)}) = 6
    /\ Len(EventsOf("unreachable_host", "p1")) = 1
    /\ EventsOf("unreachable_host", "p1")[1].severity = "critical"
    /\ EventsOf("unreachable_host", "p1")[1].target = Some("t1")
    /\ Len(EventsOf("outlier_probe_loss", "p1")) = 1

====
